---- MODULE Spec2Model ----
(***************************************************************************)
(* Handwriting capture MVP: the reveal preview engine (drawPreview and its *)
(* frame callback), the handlers that drive it (play, pause, speed and     *)
(* width-gain changes) and the animation-frame queue of the host; and the  *)
(* stroke-processing pipeline (resampleStroke, canvasToEm, the variant     *)
(* builders of approveCurrentCapture and of strokeProcessor.ts).           *)
(*                                                                         *)
(* Units.  Times are whole milliseconds.  The speed multiplier is kept     *)
(* doubled (speedSel = 1, 2, 4 stands for x0.5, x1, x2), so the elapsed    *)
(* animation time (now - playStart) * speedMul is kept in half             *)
(* milliseconds (Elapsed2).  Pressure is kept in tenths, arc length in em  *)
(* units.  A ratio or a width is an exact fraction <<num, den>>.           *)
(***************************************************************************)
EXTENDS Integers, Sequences, FiniteSets, TLC

\* ------------------------------------------------------------------ bounds
MaxStrokes == 2
MaxPts == 3
MaxDt == 1
MaxCallbacks == 3
MaxFirstDelay == 3

\* ------------------------------------------------------- program constants
SettleMs == 16
\* speedSel options x0.5 / x1 / x2, doubled
Speeds == {1, 2, 4}
\* widthGain slider positions (default 30)
Gains == {30, 100}
\* min(W, H) of the preview canvas, CSS pixels
CanvasSizes == {300}

Max(a, b) == IF a >= b THEN a ELSE b
Min(a, b) == IF a <= b THEN a ELSE b

VARIABLES
  nStrokes,    \* strokes.length of the capture buffer
  speedSel,    \* speedSel.value, doubled
  widthGain,   \* widthGain.value
  canvasSize,  \* min(W, H) of previewCanvas
  rafId,       \* id returned by the last requestAnimationFrame (0: none yet)
  playing,     \* the playing flag
  age,         \* timestamp of the latest frame or play request, minus playStart
  pending,     \* the host's animation-frame callback list
  canvas,      \* what the preview canvas shows
  ran,         \* the frame callback that ran last since the last play request
  lastOp,      \* the preview handler or callback that ran last
  cancelled,   \* whether it took a pending callback off the list
  rawStrokes,  \* strokes: the raw points of the capture, stroke by stroke
  stepPx,      \* the resampling step
  glyphBox,    \* the glyph box {x, y, w, h} the normalizer is given
  result       \* the last call of a stroke-processing function and its outcome

VARIABLES
  app,           \* the program that runs: the MVP script or the React app
  buffer,        \* strokes: the capture buffer of the script, of TracingCanvas
  capturing,     \* the script's capturing flag
  isDrawing,     \* TracingCanvas: isDrawing
  currentStroke, \* TracingCanvas: the stroke in progress
  startTime,     \* TracingCanvas: Date.now() at the start of the stroke
  now,           \* the clock (performance.now(), Date.now()), ms
  glyphs,        \* per character: the stored variants and the autosaved draft
  index,         \* session.index, session.currentIndex
  handler,       \* the capture handler that ran last, or how it ended
  lastTime,      \* the script's lastTime: performance.now() at the last pointer-down
  tasks,         \* the script's async functions that wait for the database
  session,       \* whether a session exists (session is not null)
  screen,        \* the App's screen; the script has a single page
  currentChar    \* the character on the capture stage, as its position in order

pipeVars == <<rawStrokes, stepPx, glyphBox, result>>
engineVars == <<nStrokes, speedSel, widthGain, canvasSize, rafId, playing, age,
                pending, canvas, ran, lastOp, cancelled>>
captureVars == <<app, buffer, capturing, isDrawing, currentStroke, startTime,
                 now, glyphs, index, handler, lastTime, tasks, session, screen, currentChar>>
vars == <<nStrokes, speedSel, widthGain, canvasSize, rafId, playing, age,
          pending, canvas, ran, lastOp, cancelled,
          rawStrokes, stepPx, glyphBox, result,
          app, buffer, capturing, isDrawing, currentStroke, startTime,
          now, glyphs, index, handler, lastTime, tasks, session, screen, currentChar>>

\* ------------------------------------------------- sample variants (inputs)
\* Resampled points are numbered g = 1, 2, ... across the strokes of a sample.
\* Pressures alternate between a mouse (0.5) and a firm pen (1.0); arc steps
\* cycle through a normal step, a long step (speed term above 1) and a
\* repeated position; dt cycles through 0..MaxDt starting at offset c.
Offsets == {0, 1}
SampleP(g) == IF g % 2 = 0 THEN 10 ELSE 5
SampleDs(g) == IF g % 3 = 1 THEN 14 ELSE IF g % 3 = 2 THEN 75 ELSE 0
SampleDt(g, c) == (g + c) % (MaxDt + 1)

RECURSIVE SampleS(_, _)
SampleS(g0, i) == IF i = 0 THEN 0 ELSE SampleS(g0, i - 1) + SampleDs(g0 + i)

\* Stroke k of a sample whose strokes have n resampled points each.  A stroke
\* with one resampled point is the dot of lines 509-511: dt = 0, s = 0.
SampleStroke(k, n, c) ==
  IF n = 1
    THEN << [dt |-> 0, p |-> SampleP(k), s |-> 0] >>
    ELSE [i \in 1..n |->
            [dt |-> SampleDt((k - 1) * n + i, c),
             p  |-> SampleP((k - 1) * n + i),
             s  |-> SampleS((k - 1) * n, i)]]

SampleVariant(m, n, c) == [k \in 1..m |-> SampleStroke(k, n, c)]

\* The temporary variants showPreview can build from a capture of m strokes.
Variants(m) == { SampleVariant(m, n, c) : n \in 1..MaxPts, c \in Offsets }

\* ------------------------------------------------------- drawPreview set-up
StrokeSegs(s) == [i \in 1..(Len(s) - 1) |-> [a |-> s[i], b |-> s[i + 1]]]

\* A segment list that also joins each stroke to the next one.
RECURSIVE AllPoints(_)
AllPoints(strokes) ==
  IF strokes = << >> THEN << >> ELSE Head(strokes) \o AllPoints(Tail(strokes))
SegmentsJoined(strokes) == StrokeSegs(AllPoints(strokes))
RECURSIVE Segments(_)
Segments(strokes) ==
  IF strokes = << >> THEN << >>
  ELSE StrokeSegs(Head(strokes)) \o Segments(Tail(strokes))

RECURSIVE TotalT(_)
TotalT(segs) ==
  IF segs = << >> THEN 0
  ELSE Max(1, Head(segs).b.dt) + TotalT(Tail(segs))

\* ------------------------------------------------------------ frame: widths
\* baseWidth in hundredths of a pixel
BaseWidth(size) == Max(600, Min(2200, size * 4))
\* 0.6 + widthGain01 * p, in thousandths
PressTerm(gain, p) == 600 + gain * p

\* w = baseWidth * (0.6 + widthGain01*p) / max(1, speed*0.02), where
\* speed = max(1, (b.s - a.s) * ratio) and ratio = num/den (1/1 for a full
\* segment).  The pair <<wn, wd>> stands for the width wn / (2000 * wd).
WidthOf(seg, num, den, gain, size) ==
  LET speedNum == Max(den, (seg.b.s - seg.a.s) * num)
  IN  << BaseWidth(size) * PressTerm(gain, seg.b.p) * den,
         Max(50 * den, speedNum) >>

\* A ratio that measures what is left of the segment instead of what has
\* been covered.
RatioLeft(elapsed2, tAcc, dt) ==
  LET den == 2 * Max(1, dt)
  IN  << Max(0, Min(den, den - (elapsed2 - 2 * tAcc))), den >>
\* ratio = max(0, min(1, (elapsed - tAcc) / max(1, b.dt))) as <<num, den>>
RatioOf(elapsed2, tAcc, dt) ==
  LET den == 2 * Max(1, dt)
  IN  << Max(0, Min(den, elapsed2 - 2 * tAcc)), den >>

\* -------------------------------------------------- frame: the segment loop
\* A loop whose clock advances by max(1, b.dt), as totalT does.
RECURSIVE RevealRounded(_, _, _, _, _, _)
RevealRounded(segs, i, tAcc, elapsed2, gain, size) ==
  IF i > Len(segs) THEN << >>
  ELSE
    LET seg == segs[i]
        nextAcc == tAcc + Max(1, seg.b.dt)
    IN  IF elapsed2 >= 2 * nextAcc
          THEN << [seg |-> i, kind |-> "full", ratio |-> <<1, 1>>,
                   w |-> WidthOf(seg, 1, 1, gain, size)] >>
               \o RevealRounded(segs, i + 1, nextAcc, elapsed2, gain, size)
          ELSE LET r == RatioOf(elapsed2, tAcc, seg.b.dt)
               IN  << [seg |-> i, kind |-> "partial", ratio |-> r,
                       w |-> WidthOf(seg, r[1], r[2], gain, size)] >>

\* A loop that draws a segment in full only after its arrival time.
RECURSIVE RevealStrict(_, _, _, _, _, _)
RevealStrict(segs, i, tAcc, elapsed2, gain, size) ==
  IF i > Len(segs) THEN << >>
  ELSE
    LET seg == segs[i]
        nextAcc == tAcc + seg.b.dt
    IN  IF elapsed2 > 2 * nextAcc
          THEN << [seg |-> i, kind |-> "full", ratio |-> <<1, 1>>,
                   w |-> WidthOf(seg, 1, 1, gain, size)] >>
               \o RevealStrict(segs, i + 1, nextAcc, elapsed2, gain, size)
          ELSE LET r == RatioOf(elapsed2, tAcc, seg.b.dt)
               IN  << [seg |-> i, kind |-> "partial", ratio |-> r,
                       w |-> WidthOf(seg, r[1], r[2], gain, size)] >>

\* The strokes drawn into the mask by one frame, in drawing order.
RECURSIVE Reveal(_, _, _, _, _, _)
Reveal(segs, i, tAcc, elapsed2, gain, size) ==
  IF i > Len(segs) THEN << >>
  ELSE
    LET seg == segs[i]
        nextAcc == tAcc + seg.b.dt
    IN  IF elapsed2 >= 2 * nextAcc
          THEN << [seg |-> i, kind |-> "full", ratio |-> <<1, 1>>,
                   w |-> WidthOf(seg, 1, 1, gain, size)] >>
               \o Reveal(segs, i + 1, nextAcc, elapsed2, gain, size)
          ELSE LET r == RatioOf(elapsed2, tAcc, seg.b.dt)
               IN  << [seg |-> i, kind |-> "partial", ratio |-> r,
                       w |-> WidthOf(seg, r[1], r[2], gain, size)] >>

\* Completion tests a slip could have produced: no settle margin, a strict
\* comparison, a test that never succeeds.
DoneNoSettle(elapsed2, totalT) == elapsed2 >= 2 * totalT
DoneStrict(elapsed2, totalT) == elapsed2 > 2 * (totalT + SettleMs)
DoneNever(elapsed2, totalT) == FALSE
\* stop when done
Done(elapsed2, totalT) == elapsed2 >= 2 * (totalT + SettleMs)

\* A frame that draws over what the canvas showed.
PaintOver(old, strokesDrawn) == old \o strokesDrawn
\* clearRect, the full text and the mask fill of a frame wipe what the canvas
\* showed; the frame's strokes are what remains visible.
Paint(old, strokesDrawn) == strokesDrawn

\* ------------------------------------------------ the animation-frame queue
\* Callback ids are only ever compared for equality and only rafId holds one,
\* so the host's ever-growing handle is modelled by the least id not in use.
IdsOf(list) == { cb.id : cb \in list }
FreshId(list) ==
  CHOOSE i \in 1..MaxCallbacks :
    /\ i \notin IdsOf(list)
    /\ \A j \in 1..(i - 1) : j \in IdsOf(list)
CanRequest(list) == Cardinality(list) < MaxCallbacks

\* cancelAnimationFrame(id)
Cancel(list, id) == { cb \in list : cb.id # id }

\* requestAnimationFrame(frame) for the frame function of closure cl;
\* first: requested by drawPreview itself, stale: of an earlier playback
Request(list, cl, first, stale) ==
  list \cup { [id |-> FreshId(list), cl |-> cl, first |-> first, stale |-> stale] }

\* A drawPreview that left the callback of the running playback on the list.
SurvivorsNoCancel(list, id) == { [cb EXCEPT !.stale = TRUE] : cb \in list }
\* drawPreview, line 398: cancelAnimationFrame(rafId).  A callback that is
\* still on the list afterwards belongs to an earlier playback.
Survivors(list, id) == { [cb EXCEPT !.stale = TRUE] : cb \in Cancel(list, id) }

\* A pause handler that cancels nothing.
PauseNoCancel(list, id) == list
\* pauseBtn click: cancelAnimationFrame(rafId)
PauseList(list, id) == Cancel(list, id)

\* A drawPreview that keeps the old playStart (resumes).
StartAgeResume(old) == old
\* playStart = startTime = performance.now(): no time has passed since
StartAge(old) == 0

\* the parameters a playback started by showPreview runs with
ParamsOf(sel, gain) == [speedMul |-> sel, widthGainVal |-> gain]
\* A frame that reads the controls instead of its closure.
FrameParamsLive(cl, sel, gain) == [speedMul |-> sel, widthGainVal |-> gain]
\* the parameters a frame of closure cl computes with
FrameParams(cl, sel, gain) == [speedMul |-> cl.speedMul, widthGainVal |-> cl.widthGainVal]

Closure(variant, params, size) ==
  [segments |-> Segments(variant), totalT |-> TotalT(Segments(variant)),
   speedMul |-> params.speedMul, widthGainVal |-> params.widthGainVal,
   size |-> size]

Blank == << >>
NoFrame == [none |-> TRUE]

\* The host runs the callbacks once per display frame: at 60 Hz successive
\* timestamps are 16 or 17 ms apart.  The first frame of a playback comes
\* FirstDelays after the play request (0: in the same millisecond).
FramePeriods == {16, 17}
FirstDelays == 0..MaxFirstDelay
\* No playback of the sample variants is still running at this age, even at
\* speed x0.5.
MaxAge == 2 * (MaxStrokes * (MaxPts - 1) * Max(1, MaxDt) + SettleMs) + 17

\* ------------------------------------------------------------------- Init
\* The stroke-processing functions are not called by the preview engine model,
\* whose variants are the samples above.
NoResult == [fn |-> "none"]
PipeIdle ==
  /\ rawStrokes = << >>
  /\ stepPx = 3
  /\ glyphBox = [x |-> 0, y |-> 0, w |-> 100, h |-> 100]
  /\ result = NoResult

\* a session of OrderLen characters
OrderLen == 2
NoDraft == [saved |-> FALSE, strokes |-> << >>]
\* no glyph record yet: get(..) || { sessionId, char, variants: [] }
NoGlyphs == [c \in 0..(OrderLen - 1) |-> [variants |-> << >>, draft |-> NoDraft]]
\* the capture stage after newSession and loadCurrentChar, TracingCanvas as
\* mounted for the first character
CaptureIdle ==
  /\ buffer = << >>
  /\ capturing = FALSE
  /\ isDrawing = FALSE
  /\ currentStroke = << >>
  /\ startTime = 0
  /\ now = 0
  /\ glyphs = NoGlyphs
  /\ index = 0
  /\ handler = "none"
  /\ lastTime = 0
  /\ tasks = << >>
  /\ session = (app = "mvp")
  /\ screen = (IF app = "mvp" THEN "page" ELSE "home")
  /\ currentChar = 0

Init ==
  /\ nStrokes = 0
  /\ speedSel = 2
  /\ widthGain = 30
  /\ canvasSize \in CanvasSizes
  /\ rafId = 0
  /\ playing = FALSE
  /\ age = 0
  /\ pending = {}
  /\ canvas = Blank
  /\ ran = NoFrame
  /\ lastOp = "init"
  /\ cancelled = FALSE
  /\ PipeIdle
  /\ app = "mvp"
  /\ CaptureIdle

\* ---------------------------------------------------------- capture buffer
\* pointerDown (with its first pointerMove): strokes.push
StrokeDrawn ==
  /\ nStrokes < MaxStrokes
  /\ nStrokes' = nStrokes + 1
  /\ UNCHANGED <<speedSel, widthGain, canvasSize, rafId, playing, age, pending,
                 canvas, ran, lastOp, cancelled>>
  /\ UNCHANGED pipeVars
  /\ UNCHANGED captureVars

\* undoStroke: strokes.pop
UndoStroke ==
  /\ nStrokes > 0
  /\ nStrokes' = nStrokes - 1
  /\ UNCHANGED <<speedSel, widthGain, canvasSize, rafId, playing, age, pending,
                 canvas, ran, lastOp, cancelled>>
  /\ UNCHANGED pipeVars
  /\ UNCHANGED captureVars

\* clearStrokes (clearBtn, redoBtn) and loadCurrentChar: strokes = []
ClearStrokes ==
  /\ nStrokes > 0
  /\ nStrokes' = 0
  /\ UNCHANGED <<speedSel, widthGain, canvasSize, rafId, playing, age, pending,
                 canvas, ran, lastOp, cancelled>>
  /\ UNCHANGED pipeVars
  /\ UNCHANGED captureVars

\* ------------------------------------------------------------ drawPreview
DrawPreview(variant, params) ==
  LET cl == Closure(variant, params, canvasSize)
      kept == Survivors(pending, rafId)
  IN  /\ CanRequest(kept)
      /\ canvas' = Blank
      /\ playing' = TRUE
      /\ age' = StartAge(age)
      /\ pending' = Request(kept, cl, TRUE, FALSE)
      /\ rafId' = FreshId(kept)
      /\ ran' = NoFrame
      /\ cancelled' = (IdsOf(kept) # IdsOf(pending))

\* showPreview with the controls at sel and gain
ShowPreview(op, sel, gain) ==
  /\ speedSel' = sel
  /\ widthGain' = gain
  /\ UNCHANGED <<nStrokes, canvasSize>>
  /\ UNCHANGED pipeVars
  /\ UNCHANGED captureVars
  /\ IF nStrokes = 0
       THEN /\ lastOp' = "alert"
            /\ cancelled' = FALSE
            /\ UNCHANGED <<rafId, playing, age, pending, canvas, ran>>
       ELSE /\ lastOp' = op
            /\ \E v \in Variants(nStrokes) : DrawPreview(v, ParamsOf(sel, gain))

\* playBtn click (and previewBtn click)
Play == ShowPreview("play", speedSel, widthGain)
\* speedSel change
SpeedChange == \E v \in Speeds \ {speedSel} : ShowPreview("speed", v, widthGain)
\* widthGain input
GainChange == \E g \in Gains \ {widthGain} : ShowPreview("gain", speedSel, g)

\* pauseBtn click
Pause ==
  /\ pending' = PauseList(pending, rafId)
  /\ lastOp' = "pause"
  /\ cancelled' = (PauseList(pending, rafId) # pending)
  /\ UNCHANGED <<nStrokes, speedSel, widthGain, canvasSize, rafId, playing, age,
                 canvas, ran>>
  /\ UNCHANGED pipeVars
  /\ UNCHANGED captureVars

\* ------------------------------------------------------------------ frame
\* The host runs the pending callback cb with timestamp now = playStart + age'.
Frame(cb, d) ==
  LET rest == pending \ {cb}
      cl == cb.cl
      par == FrameParams(cl, speedSel, widthGain)
      elapsed2 == (age + d) * par.speedMul
      drawn == Reveal(cl.segments, 1, 0, elapsed2, par.widthGainVal, cl.size)
  IN  /\ cb \in pending
      /\ age + d <= MaxAge
      /\ age' = age + d
      /\ lastOp' = "frame"
      /\ cancelled' = FALSE
      /\ UNCHANGED <<nStrokes, speedSel, widthGain, canvasSize>>
      /\ UNCHANGED pipeVars
      /\ UNCHANGED captureVars
      /\ IF ~playing
           THEN /\ pending' = rest
                /\ UNCHANGED <<rafId, playing, canvas, ran>>
           ELSE /\ canvas' = Paint(canvas, drawn)
                /\ ran' = [cl |-> cl, elapsed2 |-> elapsed2, stale |-> cb.stale]
                /\ IF Done(elapsed2, cl.totalT)
                     THEN /\ playing' = FALSE
                          /\ pending' = rest
                          /\ UNCHANGED rafId
                     ELSE /\ CanRequest(rest)
                          /\ playing' = TRUE
                          /\ pending' = Request(rest, cl, FALSE, cb.stale)
                          /\ rafId' = FreshId(rest)

FrameStep ==
  \E cb \in pending :
    \E d \in (IF cb.first THEN FirstDelays ELSE FramePeriods) : Frame(cb, d)

Next ==
  \/ StrokeDrawn
  \/ UndoStroke
  \/ ClearStrokes
  \/ Play
  \/ SpeedChange
  \/ GainChange
  \/ Pause
  \/ FrameStep

Spec == Init /\ [][Next]_vars

\* Playback of a capture that is already made and is left alone: only the
\* play, speed and pause controls and the frames act.  The fairness is the
\* host's: while a callback is on the list, the display keeps producing
\* frames, so some pending callback is run.
LiveInit ==
  /\ nStrokes \in 1..MaxStrokes
  /\ speedSel = 2
  /\ widthGain = 30
  /\ canvasSize \in CanvasSizes
  /\ rafId = 0
  /\ playing = FALSE
  /\ age = 0
  /\ pending = {}
  /\ canvas = Blank
  /\ ran = NoFrame
  /\ lastOp = "init"
  /\ cancelled = FALSE
  /\ PipeIdle
  /\ app = "mvp"
  /\ CaptureIdle

LiveNext ==
  \/ Play
  \/ SpeedChange
  \/ Pause
  \/ FrameStep

LiveSpec == LiveInit /\ [][LiveNext]_vars /\ WF_vars(FrameStep)

\* ======================================================== engine states
StartOps == {"play", "speed", "gain"}
IsIdle == rafId = 0
IsPlaying == pending # {}
IsCompleted == rafId # 0 /\ ~playing /\ pending = {}
IsStopped == lastOp = "pause" /\ pending = {}
\* the last preview event was a frame callback that got past its playing test
FrameRan == lastOp = "frame" /\ ran # NoFrame

\* ================================================================ claims

\* C1: at most one frame callback is pending at any time, and no callback of
\* an earlier playback is pending or has run once a new playback has started.
ThmC1 ==
  /\ Cardinality(pending) <= 1
  /\ \A cb \in pending : ~cb.stale
  /\ (ran # NoFrame => ~ran.stale)
\* a play request has just cancelled the pending frame of the playback before
WitC1 == lastOp \in StartOps /\ cancelled /\ Cardinality(pending) = 1

\* C2: a frame step whose elapsed time is >= totalT + 16 ms completes the
\* playback and schedules nothing; every other frame step of a playing engine
\* schedules exactly one next frame of the same playback; once completed, no
\* callback is pending (so no frame step runs) until a new play request.
ThmC2 ==
  /\ FrameRan =>
       IF ran.elapsed2 >= 2 * (ran.cl.totalT + SettleMs)
         THEN ~playing /\ pending = {}
         ELSE /\ playing
              /\ Cardinality(pending) = 1
              /\ \A cb \in pending : cb.cl = ran.cl /\ ~cb.first
  /\ (~playing => pending = {})
\* a playback with segments completed after more than one frame
WitC2 ==
  /\ FrameRan /\ IsCompleted
  /\ ran.cl.segments # << >>
  /\ age > MaxFirstDelay

\* C3: with frames firing at increasing timestamps and a speed multiplier
\* > 0, a playback that is Playing is eventually Completed, unless a pause or
\* a new play request interrupts it: either interruptions never cease, or
\* from some point on nothing is playing, and if frames were the last thing
\* to happen they ended in Completed.
Interrupt == Pause \/ Play \/ SpeedChange
ThmC3 ==
  \/ []<><<Interrupt>>_vars
  \/ <>[](~IsPlaying /\ (lastOp = "frame" => IsCompleted))
\* a playback at the slowest speed has completed
WitC3 == FrameRan /\ IsCompleted /\ ran.cl.speedMul = 1 /\ ran.cl.segments # << >>

\* C4 as stated: for a variant without segments every frame step, the very
\* first included, completes the playback and schedules nothing.
CexC4 == (FrameRan /\ ran.cl.segments = << >>) => (~playing /\ pending = {})
\* C4 as amended: for a variant without segments a frame step draws nothing;
\* it completes the playback iff its elapsed time is >= 16 ms, and otherwise
\* schedules exactly one more frame.
ThmC4 ==
  (FrameRan /\ ran.cl.segments = << >>) =>
    /\ canvas = Blank
    /\ IF ran.elapsed2 >= 2 * SettleMs
         THEN ~playing /\ pending = {}
         ELSE playing /\ Cardinality(pending) = 1
\* a playback of single-point strokes has completed
WitC4 == FrameRan /\ ran.cl.segments = << >> /\ ~playing /\ pending = {}

\* C5: after a pause no callback is pending, and until the next play request
\* no frame step runs and the preview canvas does not change.
ThmC5 ==
  /\ [](lastOp = "pause" => pending = {})
  /\ [][lastOp = "pause" =>
          \/ lastOp' \in StartOps
          \/ lastOp' # "frame" /\ canvas' = canvas /\ ran' = ran]_vars
\* a pause has cancelled the pending frame of a playback that had drawn
WitC5 == IsStopped /\ cancelled /\ canvas # Blank

\* C6 as stated: the playing flag is true exactly while a frame callback of
\* the active playback is pending.
CexC6 == playing <=> (pending # {})

\* C7: right after a play request or a speed or width-gain change made with
\* a non-empty capture, exactly one playback is scheduled, at elapsed time 0,
\* with the control values of that moment; and a frame step computes with the
\* parameters of the playback it belongs to and passes them on unchanged.
StartedAtZero ==
  lastOp \in StartOps =>
    /\ age = 0 /\ playing /\ ran = NoFrame /\ canvas = Blank
    /\ \E cb \in pending :
         /\ pending = {cb}
         /\ cb.first
         /\ cb.cl.speedMul = speedSel
         /\ cb.cl.widthGainVal = widthGain
ParamsFixed ==
  (lastOp' = "frame" /\ ran' # NoFrame /\ <<age, pending>>' # <<age, pending>>) =>
    \E cb \in pending :
      /\ ran'.cl = cb.cl
      /\ ran'.elapsed2 = age' * cb.cl.speedMul
      /\ canvas' = Reveal(cb.cl.segments, 1, 0, age' * cb.cl.speedMul,
                          cb.cl.widthGainVal, cb.cl.size)
      /\ \A nx \in pending' : nx.cl = cb.cl
ThmC7 == []StartedAtZero /\ [][ParamsFixed]_vars
\* a speed change in mid-playback has restarted the playback
WitC7 == lastOp = "speed" /\ cancelled /\ age = 0 /\ pending # {}

\* ------------------------------------------------ the reveal, as specified
\* arrival time of segment i: the sum of b.dt up to and including it
RECURSIVE Arrival(_, _)
Arrival(segs, i) == IF i = 0 THEN 0 ELSE Arrival(segs, i - 1) + segs[i].b.dt
\* the segments not yet arrived at elapsed time e2 (half milliseconds)
Late(segs, e2) == { i \in 1..Len(segs) : 2 * Arrival(segs, i) > e2 }
FirstLate(segs, e2) ==
  CHOOSE i \in Late(segs, e2) : \A j \in Late(segs, e2) : i <= j
FullOn(cv) == { cv[k].seg : k \in { j \in DOMAIN cv : cv[j].kind = "full" } }
PartialOn(cv) == { k \in DOMAIN cv : cv[k].kind = "partial" }
\* the segments whose arrival time is 0
Instant(segs) == { i \in 1..Len(segs) : Arrival(segs, i) = 0 }

\* C8: a frame step draws in full exactly the segments whose arrival time is
\* <= elapsed, draws the first later segment partially with ratio
\* clamp((elapsed - previous arrival) / max(1, b.dt), 0, 1), draws no segment
\* after that one, and draws no segment twice.
ThmC8 ==
  FrameRan =>
    LET segs == ran.cl.segments
        e2 == ran.elapsed2
        late == Late(segs, e2)
    IN  /\ FullOn(canvas) = (1..Len(segs)) \ late
        /\ Len(canvas) = Cardinality({ canvas[k].seg : k \in DOMAIN canvas })
        /\ IF late = {}
             THEN PartialOn(canvas) = {}
             ELSE LET f == FirstLate(segs, e2)
                      den == 2 * Max(1, segs[f].b.dt)
                      num == e2 - 2 * Arrival(segs, f - 1)
                  IN  /\ \E k \in DOMAIN canvas :
                           /\ PartialOn(canvas) = {k}
                           /\ canvas[k].seg = f
                           /\ canvas[k].ratio =
                                << Max(0, Min(den, num)), den >>
                      /\ \A k \in DOMAIN canvas : canvas[k].seg <= f
\* a frame drew a segment in full, the next one in part, and left one undrawn
WitC8 ==
  /\ FrameRan
  /\ FullOn(canvas) # {}
  /\ \E k \in PartialOn(canvas) :
       0 < canvas[k].ratio[1] /\ canvas[k].ratio[1] < canvas[k].ratio[2]
  /\ Len(canvas) < Len(ran.cl.segments)

\* C9 as stated: at speed 1 the frame step at elapsed = T (the sum of b.dt)
\* draws every segment in full, and the frame step at elapsed = 0 draws no
\* segment in full and its partial segment has ratio 0.
CexC9 ==
  (FrameRan /\ ran.cl.speedMul = 2) =>
    /\ ran.elapsed2 = 2 * Arrival(ran.cl.segments, Len(ran.cl.segments)) =>
         FullOn(canvas) = 1..Len(ran.cl.segments)
    /\ ran.elapsed2 = 0 =>
         /\ FullOn(canvas) = {}
         /\ \A k \in PartialOn(canvas) : canvas[k].ratio[1] = 0
\* C9 as amended: at speed 1 the frame step at elapsed = T draws every
\* segment in full, and the frame step at elapsed = 0 draws in full only the
\* leading segments whose arrival time is 0 (those with dt = 0 at the head of
\* the list) and its partial segment has ratio 0.
ThmC9 ==
  (FrameRan /\ ran.cl.speedMul = 2) =>
    /\ ran.elapsed2 = 2 * Arrival(ran.cl.segments, Len(ran.cl.segments)) =>
         FullOn(canvas) = 1..Len(ran.cl.segments)
    /\ ran.elapsed2 = 0 =>
         /\ FullOn(canvas) = Instant(ran.cl.segments)
         /\ \A k \in PartialOn(canvas) : canvas[k].ratio[1] = 0
\* at elapsed = 0 a leading segment with dt = 0 is drawn in full, and the
\* next segment in part
WitC9 ==
  /\ FrameRan /\ ran.cl.speedMul = 2 /\ ran.elapsed2 = 0
  /\ FullOn(canvas) # {}
  /\ PartialOn(canvas) # {}

\* C10: what a frame step leaves on the canvas (segments, ratios, widths) is
\* a function of the elapsed time, the segments, the width gain and the canvas
\* size of that step alone: not of what the canvas showed, of the controls, or
\* of earlier frames and playbacks.
ThmC10 ==
  FrameRan =>
    canvas = Reveal(ran.cl.segments, 1, 0, ran.elapsed2,
                    ran.cl.widthGainVal, ran.cl.size)
\* a later frame of a playback drew over the canvas its earlier frame left
WitC10 ==
  /\ FrameRan
  /\ age > MaxFirstDelay
  /\ FullOn(canvas) # {}
  /\ IsPlaying

\* ============================================== stroke processing pipeline
\* Units.  Capture coordinates are whole CSS pixels, timestamps whole
\* milliseconds, pressure hundredths.  A point is [x, y, t, p, ref]; ref
\* stands for the identity of the JavaScript object (two objects with equal
\* fields are still two objects).
MaxRawPts == 4
MaxRoot == 120

Abs(n) == IF n < 0 THEN -n ELSE n
\* floor of the square root
Isqrt(n) == CHOOSE r \in 0..MaxRoot : r * r <= n /\ n < (r + 1) * (r + 1)
\* Math.hypot(dx, dy), exact on the inputs for which HypotExact holds
Hypot(dx, dy) ==
  IF dy = 0 THEN Abs(dx) ELSE IF dx = 0 THEN Abs(dy)
  ELSE Isqrt(dx * dx + dy * dy)
HypotExact(dx, dy) == Hypot(dx, dy) * Hypot(dx, dy) = dx * dx + dy * dy

\* v + r * delta for r = num / den; the division is exact when LerpExact
Lerp(v, num, den, delta) == v + (num * delta) \div den
LerpExact(num, den, delta) == (num * delta) % den = 0

\* the fields of a point without the object identity
Val(pt) == [x |-> pt.x, y |-> pt.y, t |-> pt.t, p |-> pt.p]
Vals(points) == [k \in 1..Len(points) |-> Val(points[k])]
SameObject(a, b) == a.ref = b.ref
\* a new object with the fields v
Obj(v, ref) == [x |-> v.x, y |-> v.y, t |-> v.t, p |-> v.p, ref |-> ref]

\* points.splice(i, 0, e) with i the (one-based) position of b
Splice(points, i, e) ==
  SubSeq(points, 1, i - 1) \o <<e>> \o SubSeq(points, i, Len(points))

\* ------------------------------------------------------------ resampleStroke
\* The for loop of resampleStroke from position i on.  st holds the locals:
\* points (the argument array, spliced in place), out, acc; fresh numbers the
\* objects created; at[k] is the position in points where out[k] lies.  The
\* loop is computed on the inputs whose roots and divisions are exact; on any
\* other input it is abandoned with exact = FALSE.
\* A loop that goes on from an inserted point with the old distance.
AccKept(acc) == acc
\* acc = 0 after an insertion
AccReset(acc) == 0

RECURSIVE ResampleLoop(_, _, _)
ResampleLoop(st, i, step) ==
  IF i > Len(st.points) THEN st
  ELSE
    LET a == st.points[i - 1]
        b == st.points[i]
        dx == b.x - a.x
        dy == b.y - a.y
        d == Hypot(dx, dy)
        dt == b.t - a.t
        num == step - st.acc
        nv == [x |-> Lerp(a.x, num, d, dx), y |-> Lerp(a.y, num, d, dy),
               t |-> Lerp(a.t, num, d, dt), p |-> Lerp(a.p, num, d, b.p - a.p)]
        ok == /\ LerpExact(num, d, dx) /\ LerpExact(num, d, dy)
              /\ LerpExact(num, d, dt) /\ LerpExact(num, d, b.p - a.p)
    IN  IF ~HypotExact(dx, dy) \/ (st.acc + d >= step /\ ~ok)
          THEN [st EXCEPT !.exact = FALSE]
        ELSE IF st.acc + d >= step
          THEN ResampleLoop(
                 [points |-> Splice(st.points, i, Obj(nv, st.fresh + 1)),
                  out    |-> Append(st.out, Obj(nv, st.fresh)),
                  acc    |-> AccReset(st.acc),
                  fresh  |-> st.fresh + 2,
                  at     |-> Append(st.at, i),
                  exact  |-> st.exact],
                 i + 1, step)
          ELSE ResampleLoop([st EXCEPT !.acc = st.acc + d], i + 1, step)

\* A tail that never appends the last point.
TailDropped(out, points) == out
\* if (out[out.length-1] !== points[points.length-1]) out.push(...)
TailPushed(out, points) ==
  IF SameObject(out[Len(out)], points[Len(points)]) THEN out
  ELSE Append(out, points[Len(points)])

\* An early return that hands back nothing.
ShortReturnEmpty(points) == << >>
\* if (points.length < 2) return points.slice()
ShortReturn(points) == points

\* resampleStroke(points, step): ret is the array returned, arg the array
\* passed as it is after the call.
resampleStroke(points, step) ==
  IF Len(points) < 2
    THEN [ret |-> ShortReturn(points), arg |-> points, exact |-> TRUE,
          at |-> [k \in 1..Len(points) |-> k]]
    ELSE
      LET st == ResampleLoop(
                  [points |-> points, out |-> <<points[1]>>, acc |-> 0,
                   fresh |-> Len(points) + 1, at |-> <<1>>, exact |-> TRUE],
                  2, step)
          ret == TailPushed(st.out, st.points)
      IN  [ret |-> ret, arg |-> st.points, exact |-> st.exact,
           at |-> IF Len(ret) > Len(st.out)
                    THEN Append(st.at, Len(st.points)) ELSE st.at]

\* --------------------------------------------------------------- canvasToEm
EmSize == 1000
\* ((v - origin) / extent) * emSize; exact when extent divides emSize
ToEm(v, origin, extent, emSize) == ((v - origin) * emSize) \div extent
ToEmExact(v, origin, extent, emSize) == ((v - origin) * emSize) % extent = 0

\* A normalizer that scales y by the width of the box.
EmPointSquare(pt, box, emSize) ==
  [x |-> ToEm(pt.x, box.x, box.w, emSize),
   y |-> ToEm(pt.y, box.y, box.w, emSize),
   t |-> pt.t, p |-> pt.p]
\* the arrow function mapped over the points
EmPoint(pt, box, emSize) ==
  [x |-> ToEm(pt.x, box.x, box.w, emSize),
   y |-> ToEm(pt.y, box.y, box.h, emSize),
   t |-> pt.t, p |-> pt.p]

canvasToEm(points, box, emSize) ==
  [k \in 1..Len(points) |-> EmPoint(points[k], box, emSize)]
EmExact(points, box, emSize) ==
  \A k \in 1..Len(points) :
    /\ ToEmExact(points[k].x, box.x, box.w, emSize)
    /\ ToEmExact(points[k].y, box.y, box.h, emSize)

\* ------------------------------------ approveCurrentCapture: normStrokes
\* The loop over the em points from position i on; rs is resampled, sCum the
\* running arc length.
\* An arc length that starts anew at every point.
ArcLast(sCum, d) == d
\* sCum += d
ArcSum(sCum, d) == sCum + d

RECURSIVE ResampledLoop(_, _, _, _)
ResampledLoop(em, i, sCum, rs) ==
  IF i > Len(em) THEN rs
  ELSE
    LET a == em[i - 1]
        b == em[i]
        d == Hypot(b.x - a.x, b.y - a.y)
    IN  ResampledLoop(em, i + 1, ArcSum(sCum, d),
          Append(rs, [x |-> b.x, y |-> b.y, dt |-> b.t - a.t,
                      p |-> b.p, s |-> ArcSum(sCum, d)]))
EmChordsExact(em) ==
  \A i \in 2..Len(em) : HypotExact(em[i].x - em[i - 1].x, em[i].y - em[i - 1].y)

\* A builder that emits nothing for a stroke without a second point.
DotNone(em) == << >>
\* if (resampled.length === 0) resampled.push({ ..., dt:0, p:em[0].p, s:0 })
Dot(em) == << [x |-> em[1].x, y |-> em[1].y, dt |-> 0, p |-> em[1].p, s |-> 0] >>

\* One element of normStrokes.  For an empty stroke em[0] is undefined and
\* the read of em[0].x throws.
\* r is what resampleStroke gave (rs in the code), em = canvasToEm(rs, box,
\* emSize), rs the resampled array after the loop.
NormOf(r, em, rs, box) ==
  IF rs # << >>
    THEN [points |-> em, resampled |-> rs, threw |-> FALSE,
          exact |-> r.exact /\ EmExact(r.ret, box, EmSize) /\ EmChordsExact(em)]
  ELSE IF em = << >>
    THEN [points |-> em, resampled |-> rs, threw |-> TRUE, exact |-> TRUE]
  ELSE [points |-> em, resampled |-> Dot(em), threw |-> FALSE,
        exact |-> r.exact /\ EmExact(r.ret, box, EmSize)]
NormOfEm(r, em, box) == NormOf(r, em, ResampledLoop(em, 2, 0, << >>), box)
NormOfResampled(r, box) == NormOfEm(r, canvasToEm(r.ret, box, EmSize), box)
NormStroke(stroke, step, box) ==
  NormOfResampled(resampleStroke(stroke, step), box)

NormStrokes(strokes, step, box) ==
  [k \in 1..Len(strokes) |-> NormStroke(strokes[k], step, box)]
\* variant.strokes[k].resampled, as drawPreview reads it
ResampledOf(norm) == [k \in 1..Len(norm) |-> norm[k].resampled]

\* ------------------------------------- strokeProcessor.ts: resamplePoints
\* Units here: coordinates and lengths in hundredths of a pixel going in and
\* tenths coming out, pressure in thousandths going in and hundredths coming
\* out.  RoundTo(n, k) is Math.round(n / k) = floor(n / k + 1/2).
RoundTo(n, k) == (2 * n + k) \div (2 * k)

RECURSIVE ResamplePointsLoop(_, _, _, _)
ResamplePointsLoop(points, i, cumulativeLength, resampled) ==
  IF i > Len(points) THEN resampled
  ELSE
    LET point == points[i]
        prevPoint == IF i > 1 THEN points[i - 1] ELSE point
        segmentLength == Hypot(point.x - prevPoint.x, point.y - prevPoint.y)
        len == cumulativeLength + segmentLength
    IN  ResamplePointsLoop(points, i + 1, len,
          Append(resampled,
                 [x  |-> RoundTo(point.x, 10),
                  y  |-> RoundTo(point.y, 10),
                  dt |-> point.t - (IF i > 1 THEN points[i - 1].t ELSE 0),
                  p  |-> RoundTo(point.p, 10),
                  s  |-> RoundTo(len, 10)]))

resamplePoints(points) ==
  IF Len(points) = 0 THEN << >> ELSE ResamplePointsLoop(points, 1, 0, << >>)

\* createVariantFromStrokes: strokes
TsStrokes(strokes) ==
  [k \in 1..Len(strokes) |->
     [points |-> Vals(strokes[k]), resampled |-> resamplePoints(strokes[k])]]

\* rawStrokes.flat()
RECURSIVE Flat(_)
Flat(ss) == IF ss = << >> THEN << >> ELSE Head(ss) \o Flat(Tail(ss))
RECURSIVE ArcLengthLoop(_, _)
ArcLengthLoop(points, i) ==
  IF i < 2 THEN 0
  ELSE ArcLengthLoop(points, i - 1)
         + Hypot(points[i].x - points[i - 1].x, points[i].y - points[i - 1].y)
\* in hundredths of a pixel: Math.round(length * 100) / 100
calculateArcLength(points) == RoundTo(ArcLengthLoop(points, Len(points)), 1)
RECURSIVE SumArcLen(_, _)
SumArcLen(ss, n) ==
  IF n = 0 THEN 0 ELSE SumArcLen(ss, n - 1) + calculateArcLength(ss[n])
\* allPoints.length > 0 ? allPoints[allPoints.length - 1].t - allPoints[0].t : 0
Duration(allPoints) ==
  IF Len(allPoints) > 0 THEN allPoints[Len(allPoints)].t - allPoints[1].t ELSE 0
createVariantFromStrokes(raw) ==
  [strokes |-> TsStrokes(raw),
   stats |-> [durationMs |-> Duration(Flat(raw)),
              arcLen |-> RoundTo(SumArcLen(raw, Len(raw)), 1)],
   starred |-> FALSE, weight |-> 10]

\* the variant of approveCurrentCapture: { id, strokes: normStrokes,
\* stats: {}, starred: true, weight: 1.0 }
StoredStrokes(norm) ==
  [k \in 1..Len(norm) |->
     [points |-> norm[k].points, resampled |-> norm[k].resampled]]
\* stats: {}
NoStats == << >>
MvpVariant(norm) ==
  [strokes |-> StoredStrokes(norm), stats |-> NoStats, starred |-> TRUE,
   weight |-> 10]

\* ------------------------------------------------------ JSON export, import
\* JSON.stringify and JSON.parse.  A document is the tree of its values; a
\* number is in the document as its decimal text, a list of characters.  The
\* numbers of the model are integers in a unit of 1/scale (scale 1, 10, 100
\* or 1000), so that the text of n is that of the decimal n / scale.
DigitChars == << "0", "1", "2", "3", "4", "5", "6", "7", "8", "9" >>
DigitOf(c) == CHOOSE d \in 0..9 : DigitChars[d + 1] = c
\* the number of decimals of a unit
RECURSIVE Decimals(_)
Decimals(scale) == IF scale <= 1 THEN 0 ELSE 1 + Decimals(scale \div 10)
RECURSIVE Pow10(_)
Pow10(w) == IF w = 0 THEN 1 ELSE 10 * Pow10(w - 1)

\* the digits of an integer n >= 0
RECURSIVE Digits(_)
Digits(n) ==
  IF n < 10 THEN << DigitChars[n + 1] >>
  ELSE Digits(n \div 10) \o << DigitChars[(n % 10) + 1] >>
\* Decimals written without the zeros that follow the point.
RECURSIVE StripZeros(_)
StripZeros(text) ==
  IF text = << >> THEN << >>
  ELSE IF text[Len(text)] = "0" THEN StripZeros(SubSeq(text, 1, Len(text) - 1))
  ELSE text
FractionUnpadded(f, w) == IF f = 0 THEN << >> ELSE StripZeros(Digits(f))
\* the w decimals of f / 10^w
RECURSIVE Padded(_, _)
Padded(f, w) ==
  IF w = 0 THEN << >>
  ELSE Padded(f \div 10, w - 1) \o << DigitChars[(f % 10) + 1] >>
\* the decimals of a number, as Number::toString writes them: none that is
\* not needed
Fraction(f, w) == StripZeros(Padded(f, w))

\* Number::toString of n / scale
NumberToString(n, scale) ==
  LET frac == Fraction(Abs(n) % scale, Decimals(scale))
  IN  (IF n < 0 THEN << "-" >> ELSE << >>)
        \o Digits(Abs(n) \div scale)
        \o (IF frac = << >> THEN << >> ELSE << "." >> \o frac)

RECURSIVE DigitsValue(_)
DigitsValue(text) ==
  IF text = << >> THEN 0
  ELSE 10 * DigitsValue(SubSeq(text, 1, Len(text) - 1)) + DigitOf(text[Len(text)])
\* the number a decimal text stands for, in units of 1/scale
StringToNumber(text, scale) ==
  LET neg == text[1] = "-"
      body == IF neg THEN Tail(text) ELSE text
      dot == IF \E k \in 1..Len(body) : body[k] = "."
               THEN CHOOSE k \in 1..Len(body) : body[k] = "."
               ELSE Len(body) + 1
      whole == SubSeq(body, 1, dot - 1)
      frac == SubSeq(body, dot + 1, Len(body))
      val == DigitsValue(whole) * scale
               + DigitsValue(frac) * Pow10(Decimals(scale) - Len(frac))
  IN  IF neg THEN 0 - val ELSE val

JNumber(n, scale) == [kind |-> "number", text |-> NumberToString(n, scale)]
JString(str) == [kind |-> "string", text |-> str]
JBoolean(b) == [kind |-> "literal", text |-> IF b THEN "true" ELSE "false"]
NumberOf(j, scale) == StringToNumber(j.text, scale)

\* The units of the numbers of a variant: of the coordinates and pressure
\* of points, of the coordinates, pressure and arc length of resampled, of
\* stats.arcLen.
TsScales == [xy |-> 100, p |-> 1000, rxy |-> 10, rp |-> 100, s |-> 10, arc |-> 100]
MvpScales == [xy |-> 1, p |-> 100, rxy |-> 1, rp |-> 100, s |-> 1, arc |-> 1]

\* JSON.stringify of a variant
PointJson(pt, u) ==
  [x |-> JNumber(pt.x, u.xy), y |-> JNumber(pt.y, u.xy),
   t |-> JNumber(pt.t, 1), p |-> JNumber(pt.p, u.p)]
ResampledJson(r, u) ==
  [x |-> JNumber(r.x, u.rxy), y |-> JNumber(r.y, u.rxy),
   dt |-> JNumber(r.dt, 1), p |-> JNumber(r.p, u.rp), s |-> JNumber(r.s, u.s)]
StrokeJson(st, u) ==
  [points |-> [k \in 1..Len(st.points) |-> PointJson(st.points[k], u)],
   resampled |-> [k \in 1..Len(st.resampled) |-> ResampledJson(st.resampled[k], u)]]
StatsJson(stats, u) ==
  IF stats = NoStats THEN NoStats
  ELSE [durationMs |-> JNumber(stats.durationMs, 1),
        arcLen |-> JNumber(stats.arcLen, u.arc)]
VariantJson(v, u) ==
  [id |-> JString(v.id), starred |-> JBoolean(v.starred),
   weight |-> JNumber(v.weight, 10), stats |-> StatsJson(v.stats, u),
   strokes |-> [k \in 1..Len(v.strokes) |-> StrokeJson(v.strokes[k], u)]]

\* JSON.parse of a variant
PointOf(j, u) ==
  [x |-> NumberOf(j.x, u.xy), y |-> NumberOf(j.y, u.xy),
   t |-> NumberOf(j.t, 1), p |-> NumberOf(j.p, u.p)]
ResampledOfJson(j, u) ==
  [x |-> NumberOf(j.x, u.rxy), y |-> NumberOf(j.y, u.rxy),
   dt |-> NumberOf(j.dt, 1), p |-> NumberOf(j.p, u.rp), s |-> NumberOf(j.s, u.s)]
StrokeOf(j, u) ==
  [points |-> [k \in 1..Len(j.points) |-> PointOf(j.points[k], u)],
   resampled |-> [k \in 1..Len(j.resampled) |-> ResampledOfJson(j.resampled[k], u)]]
StatsOf(j, u) ==
  IF j = NoStats THEN NoStats
  ELSE [durationMs |-> NumberOf(j.durationMs, 1),
        arcLen |-> NumberOf(j.arcLen, u.arc)]
VariantOf(j, u) ==
  [id |-> j.id.text, starred |-> (j.starred.text = "true"),
   weight |-> NumberOf(j.weight, 10), stats |-> StatsOf(j.stats, u),
   strokes |-> [k \in 1..Len(j.strokes) |-> StrokeOf(j.strokes[k], u)]]

\* the variant v with the id it was given (generateUUID, crypto.randomUUID)
WithId(v, id) ==
  [id |-> id, strokes |-> v.strokes, stats |-> v.stats, starred |-> v.starred,
   weight |-> v.weight]
\* a session whose current character has the variants vs
SessionOf(vs, i) == [schemaVersion |-> 1, variants |-> vs, currentIndex |-> i]

\* saveSession: JSON.stringify(session) into localStorage
saveSession(sess) ==
  [schemaVersion |-> JNumber(sess.schemaVersion, 1),
   variants |-> [k \in 1..Len(sess.variants) |->
                   VariantJson(sess.variants[k], TsScales)],
   currentIndex |-> JNumber(sess.currentIndex, 1)]
\* loadSession: JSON.parse(data)
loadSession(data) ==
  [schemaVersion |-> NumberOf(data.schemaVersion, 1),
   variants |-> [k \in 1..Len(data.variants) |->
                   VariantOf(data.variants[k], TsScales)],
   currentIndex |-> NumberOf(data.currentIndex, 1)]
\* downloadSession: JSON.stringify of the session without currentIndex
downloadSession(sess) ==
  [schemaVersion |-> JNumber(sess.schemaVersion, 1),
   variants |-> [k \in 1..Len(sess.variants) |->
                   VariantJson(sess.variants[k], TsScales)]]
\* exportJSON: data.set[rec.char] = { metrics, variants: rec.variants }
exportJSON(rec) ==
  [schemaVersion |-> JNumber(1, 1),
   variants |-> [k \in 1..Len(rec.variants) |->
                   VariantJson(rec.variants[k], MvpScales)]]
\* JSON.parse of an exported file, by whoever imports it
ImportFile(data, u) ==
  [schemaVersion |-> NumberOf(data.schemaVersion, 1),
   variants |-> [k \in 1..Len(data.variants) |-> VariantOf(data.variants[k], u)]]

\* ------------------------------------------------- sample captures (inputs)
\* A sample stroke is a start point followed by axis-parallel pointer moves:
\* the pen travels at Tau ms per pixel, rests Hold ms where it does not move,
\* and its pressure rises and falls along the moves.
Tau == 10
Hold == 20
Moves == { <<0, 0>>, <<3, 0>>, <<10, 0>>, <<0, 4>>, <<0, 7>> }
Slope(k) == IF k % 3 = 1 THEN 3 ELSE IF k % 3 = 2 THEN -5 ELSE 2

RECURSIVE RawPt(_, _)
RawPt(ms, k) ==
  IF k = 0 THEN [x |-> 0, y |-> 0, t |-> 0, p |-> 50, ref |-> 1]
  ELSE LET q == RawPt(ms, k - 1)
           len == Abs(ms[k][1]) + Abs(ms[k][2])
       IN  [x |-> q.x + ms[k][1], y |-> q.y + ms[k][2],
            t |-> q.t + (IF len = 0 THEN Hold ELSE Tau * len),
            p |-> q.p + Slope(k) * len, ref |-> k + 1]
RawStroke(ms) == [k \in 1..(Len(ms) + 1) |-> RawPt(ms, k - 1)]

MoveSeqs(n) == UNION { [1..m -> Moves] : m \in 0..n }
Strokes1 == { RawStroke(ms) : ms \in MoveSeqs(MaxRawPts - 1) }
ShortStrokes == { RawStroke(ms) : ms \in MoveSeqs(1) }

\* the stroke of the worked example: (0,0,0,0.5) (10,0,100,0.8) (20,0,200,0.3)
ScenarioStroke ==
  << [x |-> 0,  y |-> 0, t |-> 0,   p |-> 50, ref |-> 1],
     [x |-> 10, y |-> 0, t |-> 100, p |-> 80, ref |-> 2],
     [x |-> 20, y |-> 0, t |-> 200, p |-> 30, ref |-> 3] >>

\* stroke b drawn g ms after the last point of stroke a, one pixel lower
Gaps == {0, 40}
Later(b, a, g) ==
  [k \in 1..Len(b) |->
     [b[k] EXCEPT !.t = b[k].t + a[Len(a)].t + g, !.y = b[k].y + 1]]

MvpCaptures ==
  { <<st>> : st \in Strokes1 \cup {ScenarioStroke, << >>} }
  \cup { <<a, Later(b, a, g)>> : a \in ShortStrokes, b \in ShortStrokes, g \in Gaps }

Steps == {3, 5, 7}
Boxes == { [x |-> 0, y |-> 0, w |-> 100, h |-> 100],
           [x |-> 10, y |-> 20, w |-> 250, h |-> 125] }
\* getGlyphBox gives a square box
SquareBoxes == { b \in Boxes : b.w = b.h }

\* React capture: the first point of a stroke has t = 0, the moves are of
\* hundredths of a pixel, one every 16 ms.
NoBox == [none |-> TRUE]
TsMoves == { <<0, 0>>, <<4, 0>>, <<300, 0>>, <<0, -125>> }
RECURSIVE TsPt(_, _)
TsPt(ms, k) ==
  IF k = 0 THEN [x |-> 1234, y |-> 5670, t |-> 0, p |-> 500, ref |-> 1]
  ELSE LET q == TsPt(ms, k - 1)
       IN  [x |-> q.x + ms[k][1], y |-> q.y + ms[k][2], t |-> q.t + 16,
            p |-> q.p + 123, ref |-> k + 1]
TsStroke(ms) == [k \in 1..(Len(ms) + 1) |-> TsPt(ms, k - 1)]
TsCaptures ==
  { <<TsStroke(ms)>> : ms \in UNION { [1..m -> TsMoves] : m \in 0..(MaxRawPts - 1) } }
  \cup { << >>, << << >> >>, << << >>, << >> >> }

\* ------------------------------------------- calls of the pipeline functions
\* stepPx of approveCurrentCapture and showPreview
StepPx == 3
MaxTicks == 16
\* elapsed times (ms) at which a frame of a preview is looked at
FrameTimes == { 5 * j : j \in 0..MaxTicks }
\* the objects of an array as a caller holds them, numbered anew
Reref(points) == [k \in 1..Len(points) |-> Obj(points[k], k)]

PipeInit ==
  /\ nStrokes = 0
  /\ speedSel = 2
  /\ widthGain = 30
  /\ canvasSize \in CanvasSizes
  /\ rafId = 0
  /\ playing = FALSE
  /\ age = 0
  /\ pending = {}
  /\ canvas = Blank
  /\ ran = NoFrame
  /\ lastOp = "init"
  /\ cancelled = FALSE
  /\ \/ rawStrokes \in MvpCaptures /\ stepPx \in Steps /\ glyphBox \in Boxes
     \/ rawStrokes \in TsCaptures /\ stepPx = StepPx /\ glyphBox = NoBox
  /\ result = NoResult
  /\ app = (IF glyphBox = NoBox THEN "react" ELSE "mvp")
  /\ CaptureIdle

\* resampleStroke(points, step) on a stroke of the capture
CallResample ==
  /\ glyphBox # NoBox
  /\ \E k \in 1..Len(rawStrokes) :
       LET r == resampleStroke(rawStrokes[k], stepPx)
       IN  /\ r.exact
           /\ result' = [fn |-> "resampleStroke", points |-> rawStrokes[k],
                         step |-> stepPx, ret |-> r.ret, after |-> r.arg,
                         at |-> r.at]
  /\ UNCHANGED <<rawStrokes, stepPx, glyphBox>>
  /\ UNCHANGED engineVars
  /\ UNCHANGED captureVars

\* resampleStroke applied to what resampleStroke returned
CallResampleAgain ==
  /\ glyphBox # NoBox
  /\ Len(rawStrokes) = 1
  /\ LET r1 == resampleStroke(rawStrokes[1], stepPx)
         r2 == resampleStroke(Reref(r1.ret), stepPx)
     IN  /\ r1.exact /\ r2.exact
         /\ result' = [fn |-> "resampleAgain", points |-> rawStrokes[1],
                       step |-> stepPx, first |-> r1.ret, ret |-> r2.ret]
  /\ UNCHANGED <<rawStrokes, stepPx, glyphBox>>
  /\ UNCHANGED engineVars
  /\ UNCHANGED captureVars

\* canvasToEm(points, box, emSize) on a stroke of the capture
CallCanvasToEm ==
  /\ glyphBox # NoBox
  /\ \E k \in 1..Len(rawStrokes) :
       /\ EmExact(rawStrokes[k], glyphBox, EmSize)
       /\ result' = [fn |-> "canvasToEm", points |-> rawStrokes[k],
                     box |-> glyphBox, emSize |-> EmSize,
                     ret |-> canvasToEm(rawStrokes[k], glyphBox, EmSize)]
  /\ UNCHANGED <<rawStrokes, stepPx, glyphBox>>
  /\ UNCHANGED engineVars
  /\ UNCHANGED captureVars

\* approveCurrentCapture (and showPreview): normStrokes of the capture
CallNormStrokes ==
  /\ glyphBox \in SquareBoxes
  /\ LET norm == NormStrokes(rawStrokes, StepPx, glyphBox)
     IN  /\ \A k \in 1..Len(norm) : norm[k].exact
         /\ result' = IF \E k \in 1..Len(norm) : norm[k].threw
                        THEN [fn |-> "TypeError", strokes |-> rawStrokes]
                        ELSE [fn |-> "normStrokes", strokes |-> rawStrokes,
                              ret |-> norm]
  /\ UNCHANGED <<rawStrokes, stepPx, glyphBox>>
  /\ UNCHANGED engineVars
  /\ UNCHANGED captureVars

\* the frame, at elapsed time e and speed x1, of the preview showPreview
\* starts for the temporary variant it has built from a two-stroke capture
CallPreviewFrame ==
  /\ result.fn = "normStrokes"
  /\ Len(rawStrokes) = 2
  /\ \E e \in FrameTimes :
       result' = [fn |-> "frame", strokes |-> rawStrokes, norm |-> result.ret,
                  elapsed2 |-> 2 * e,
                  drawn |-> Reveal(Segments(ResampledOf(result.ret)), 1, 0,
                                   2 * e, widthGain \div 10, canvasSize)]
  /\ UNCHANGED <<rawStrokes, stepPx, glyphBox>>
  /\ UNCHANGED engineVars
  /\ UNCHANGED captureVars

\* createVariantFromStrokes(strokes) of the React capture
CallCreateVariant ==
  /\ glyphBox = NoBox
  /\ LET variant == createVariantFromStrokes(rawStrokes)
     IN  result' = [fn |-> "createVariantFromStrokes", strokes |-> rawStrokes,
                    ret |-> variant.strokes, stats |-> variant.stats]
  /\ UNCHANGED <<rawStrokes, stepPx, glyphBox>>
  /\ UNCHANGED engineVars
  /\ UNCHANGED captureVars

\* handleAcceptTrace: the session with the new variant is saved; the App
\* loads it when it starts again; the file downloadSession writes is parsed
\* by an importer
CallSaveLoad ==
  /\ glyphBox = NoBox
  /\ \E i \in 0..1 :
       LET variant == WithId(createVariantFromStrokes(rawStrokes), "uuid-1")
           sess == SessionOf(<< variant >>, i)
       IN  result' = [fn |-> "loadSession", strokes |-> rawStrokes,
                      session |-> sess,
                      ret |-> loadSession(saveSession(sess)),
                      file |-> ImportFile(downloadSession(sess), TsScales)]
  /\ UNCHANGED <<rawStrokes, stepPx, glyphBox>>
  /\ UNCHANGED engineVars
  /\ UNCHANGED captureVars

\* exportJSON of the record approveCurrentCapture has stored, and the parse
\* of the file by an importer
CallExportJSON ==
  /\ glyphBox \in SquareBoxes
  /\ LET norm == NormStrokes(rawStrokes, StepPx, glyphBox)
         rec == [variants |-> << WithId(MvpVariant(norm), "uuid-1") >>]
     IN  /\ rawStrokes # << >>
         /\ \A k \in 1..Len(norm) : norm[k].exact /\ ~norm[k].threw
         /\ result' = [fn |-> "exportJSON", strokes |-> rawStrokes,
                       session |-> rec,
                       file |-> ImportFile(exportJSON(rec), MvpScales)]
  /\ UNCHANGED <<rawStrokes, stepPx, glyphBox>>
  /\ UNCHANGED engineVars
  /\ UNCHANGED captureVars

PipeNext ==
  \/ CallResample
  \/ CallResampleAgain
  \/ CallCanvasToEm
  \/ CallNormStrokes
  \/ CallPreviewFrame
  \/ CallCreateVariant
  \/ CallSaveLoad
  \/ CallExportJSON

PipeSpec == PipeInit /\ [][PipeNext]_vars

\* ====================================================== claims C11 .. C20
\* segment i is being revealed: drawn in full, or in part with a ratio > 0
Revealed(drawn, i) ==
  \E k \in DOMAIN drawn :
    /\ drawn[k].seg = i
    /\ (drawn[k].kind = "full" \/ drawn[k].ratio[1] > 0)
\* the previewed capture: number of segments of stroke 1, the pause recorded
\* between the strokes, the arrival time of the last segment of stroke 1
SegsOf1 == Len(result.norm[1].resampled) - 1
SegsOf2 == Len(result.norm[2].resampled) - 1
PenLift == result.strokes[2][1].t - result.strokes[1][Len(result.strokes[1])].t
BuiltSegments == Segments(ResampledOf(result.norm))
ArrivalOf1 == Arrival(BuiltSegments, SegsOf1)
\* the time stroke 1 took from its second em point to its last point
ClockOf1 ==
  LET em == result.norm[1].points
  IN  IF Len(em) < 3 THEN 0 ELSE em[Len(em)].t - em[2].t

\* C11 as stated: the first segment of stroke 2 is not being revealed before
\* the recorded pen-lift pause has elapsed after the arrival of the last
\* segment of stroke 1.
CexC11 ==
  (result.fn = "frame" /\ SegsOf2 >= 1) =>
    (result.elapsed2 < 2 * (ArrivalOf1 + PenLift) =>
       ~Revealed(result.drawn, SegsOf1 + 1))
\* C11 as amended: the cumulative clock is not reset at the stroke boundary
\* and the pen-lift pause is not part of it: the first segment of stroke 2 is
\* being revealed exactly when the elapsed time exceeds the arrival time of
\* the last segment of stroke 1 (or equals it and the segment has dt = 0);
\* that arrival time is the time stroke 1 took from its second em point to
\* its last point.
ThmC11 ==
  (result.fn = "frame" /\ SegsOf2 >= 1) =>
    /\ BuiltSegments[SegsOf1 + 1] =
         [a |-> result.norm[2].resampled[1], b |-> result.norm[2].resampled[2]]
    /\ ArrivalOf1 = ClockOf1
    /\ Revealed(result.drawn, SegsOf1 + 1) <=>
         \/ result.elapsed2 > 2 * ClockOf1
         \/ /\ result.elapsed2 = 2 * ClockOf1
            /\ result.norm[2].resampled[2].dt = 0
\* stroke 2 is being revealed within the pen-lift pause after stroke 1, whose
\* segments took time to arrive
WitC11 ==
  /\ result.fn = "frame" /\ SegsOf2 >= 1 /\ SegsOf1 >= 1
  /\ PenLift > 0 /\ ArrivalOf1 > 0
  /\ result.elapsed2 > 2 * ArrivalOf1
  /\ result.elapsed2 < 2 * (ArrivalOf1 + PenLift)
  /\ Revealed(result.drawn, SegsOf1 + 1)

\* ------------------------------------------------------------- resampler
Resampled2 == result.fn = "resampleStroke" /\ Len(result.points) >= 2
\* squared Euclidean distance of two points
Dist2(a, b) == (b.x - a.x) * (b.x - a.x) + (b.y - a.y) * (b.y - a.y)
\* length of the path through points[i], ..., points[j]
RECURSIVE PathLen(_, _, _)
PathLen(points, i, j) ==
  IF j <= i THEN 0
  ELSE PathLen(points, i, j - 1)
       + Hypot(points[j].x - points[j - 1].x, points[j].y - points[j - 1].y)
\* the points lie on one horizontal or vertical line, in order of travel
Straight(points) ==
  \/ \A k \in 2..Len(points) :
       points[k].y = points[1].y /\ points[k].x >= points[k - 1].x
  \/ \A k \in 2..Len(points) :
       points[k].x = points[1].x /\ points[k].y >= points[k - 1].y

\* C12 as stated: every segment between consecutive output points, except
\* the last, has Euclidean length S, corners included.
CexC12 ==
  Resampled2 =>
    \A k \in 1..(Len(result.ret) - 2) :
      Dist2(result.ret[k], result.ret[k + 1]) = result.step * result.step
\* C12 as amended: between consecutive output points, except over the last
\* segment, the input path has length S; the Euclidean length of the segment
\* is at most S, and it is S when the input points lie on a straight line
\* in order of travel.
ThmC12 ==
  Resampled2 =>
    \A k \in 1..(Len(result.ret) - 2) :
      /\ Val(result.after[result.at[k]]) = Val(result.ret[k])
      /\ Val(result.after[result.at[k + 1]]) = Val(result.ret[k + 1])
      /\ PathLen(result.after, result.at[k], result.at[k + 1]) = result.step
      /\ Dist2(result.ret[k], result.ret[k + 1]) <= result.step * result.step
      /\ Straight(result.points) =>
           Dist2(result.ret[k], result.ret[k + 1]) = result.step * result.step
\* a stroke with a corner: some output segment before the last is shorter
\* than the step, while others have its length
WitC12 ==
  /\ Resampled2
  /\ \E k \in 1..(Len(result.ret) - 2) :
       Dist2(result.ret[k], result.ret[k + 1]) < result.step * result.step
  /\ \E k \in 1..(Len(result.ret) - 2) :
       Dist2(result.ret[k], result.ret[k + 1]) = result.step * result.step

\* C13: for an input of at least 2 points the last output point has the x, y,
\* t and p of the input's last point.
ThmC13 ==
  Resampled2 =>
    Val(result.ret[Len(result.ret)]) = Val(result.points[Len(result.points)])
\* the rest of the stroke after the last inserted point is shorter than a step
WitC13 ==
  /\ Resampled2
  /\ Len(result.ret) >= 3
  /\ Dist2(result.ret[Len(result.ret) - 1], result.ret[Len(result.ret)]) > 0
  /\ Dist2(result.ret[Len(result.ret) - 1], result.ret[Len(result.ret)])
       < result.step * result.step

\* C14 as stated: the stroke (0,0,0,0.5) (10,0,100,0.8) (20,0,200,0.3)
\* resampled with step 5 gives exactly the five points at x = 0, 5, 10, 15,
\* 20, each once, with p = 0.65 and t = 50 at x = 5.
CexC14 ==
  (result.fn = "resampleStroke" /\ result.points = ScenarioStroke
     /\ result.step = 5) =>
    Vals(result.ret) =
      << [x |-> 0,  y |-> 0, t |-> 0,   p |-> 50],
         [x |-> 5,  y |-> 0, t |-> 50,  p |-> 65],
         [x |-> 10, y |-> 0, t |-> 100, p |-> 80],
         [x |-> 15, y |-> 0, t |-> 150, p |-> 55],
         [x |-> 20, y |-> 0, t |-> 200, p |-> 30] >>

\* C15: an input of fewer than 2 points is returned as it is, and is left as
\* it is.
ThmC15 ==
  (result.fn = "resampleStroke" /\ Len(result.points) < 2) =>
    /\ result.ret = result.points
    /\ result.after = result.points
\* a single-point stroke has been resampled
WitC15 ==
  /\ result.fn = "resampleStroke"
  /\ Len(result.points) = 1
  /\ Len(result.ret) = 1

\* C16 as stated: a call leaves the point sequence passed to it unchanged.
CexC16 == result.fn = "resampleStroke" => result.after = result.points

\* the positions of a point sequence
Pos(points) == [k \in 1..Len(points) |-> <<points[k].x, points[k].y>>]
PosSet(points) == { <<points[k].x, points[k].y>> : k \in 1..Len(points) }

\* C17 as stated: resampling the output of a resample again with the same
\* step leaves the positions of the points unchanged.
CexC17 ==
  result.fn = "resampleAgain" => PosSet(result.ret) = PosSet(result.first)
\* C17 as amended: resampling again with the same step keeps the first and
\* the last point, and keeps every position when the points of the stroke lie
\* on a straight line in order of travel.
ThmC17 ==
  (result.fn = "resampleAgain" /\ Len(result.points) >= 1) =>
    /\ Pos(result.ret)[1] = Pos(result.first)[1]
    /\ Pos(result.ret)[Len(result.ret)] = Pos(result.first)[Len(result.first)]
    /\ Straight(result.points) => Pos(result.ret) = Pos(result.first)
\* a straight stroke of several steps and a shorter rest, resampled twice
WitC17 ==
  /\ result.fn = "resampleAgain"
  /\ Straight(result.points)
  /\ Len(result.first) >= 4
  /\ Dist2(result.first[Len(result.first) - 1], result.first[Len(result.first)])
       \in 1..(result.step * result.step - 1)
  /\ Pos(result.ret) = Pos(result.first)

\* ------------------------------------------------------------ normalizer
\* C18: the normalizer outputs, for every point, x = (x - box.x) / box.w *
\* emSize and y = (y - box.y) / box.h * emSize, passes t and p through, and
\* keeps the number and the order of the points; (50, 50) in the box
\* {0, 0, 100, 100} with emSize 1000 becomes (500, 500).
ThmC18 ==
  /\ result.fn = "canvasToEm" =>
       /\ Len(result.ret) = Len(result.points)
       /\ \A k \in 1..Len(result.points) :
            /\ result.ret[k].x * result.box.w
                 = (result.points[k].x - result.box.x) * result.emSize
            /\ result.ret[k].y * result.box.h
                 = (result.points[k].y - result.box.y) * result.emSize
            /\ result.ret[k].t = result.points[k].t
            /\ result.ret[k].p = result.points[k].p
  /\ canvasToEm(<< [x |-> 50, y |-> 50, t |-> 0, p |-> 50] >>,
                [x |-> 0, y |-> 0, w |-> 100, h |-> 100], 1000)
       = << [x |-> 500, y |-> 500, t |-> 0, p |-> 50] >>
\* a stroke of several points normalized with a box that is not square and
\* not at the origin
WitC18 ==
  /\ result.fn = "canvasToEm"
  /\ Len(result.points) >= 3
  /\ result.box.w # result.box.h
  /\ result.box.x # 0
  /\ \E k \in 1..Len(result.ret) : result.ret[k].y # result.ret[1].y

\* -------------------------------------------------------- variant builder
Built == result.fn = "normStrokes"
TsBuilt == result.fn = "createVariantFromStrokes"

\* C19 as stated: every non-empty raw stroke gets at least one resampled
\* point, and a stroke of fewer than 2 points yields exactly one resampled
\* point with dt = 0 and s = 0 and that point's coordinates and pressure
\* (createVariantFromStrokes takes hundredths of a pixel and thousandths of
\* pressure and gives tenths and hundredths).
CexC19 ==
  /\ Built =>
       \A k \in 1..Len(result.ret) :
         LET st == result.ret[k]
         IN  st.points # << >> =>
             /\ Len(st.resampled) >= 1
             /\ Len(st.points) < 2 =>
                  st.resampled = << [x |-> st.points[1].x, y |-> st.points[1].y,
                                     dt |-> 0, p |-> st.points[1].p, s |-> 0] >>
  /\ TsBuilt =>
       \A k \in 1..Len(result.ret) :
         LET st == result.ret[k]
         IN  st.points # << >> =>
             /\ Len(st.resampled) >= 1
             /\ Len(st.points) < 2 =>
                  /\ Len(st.resampled) = 1
                  /\ st.resampled[1].dt = 0 /\ st.resampled[1].s = 0
                  /\ 10 * st.resampled[1].x = st.points[1].x
                  /\ 10 * st.resampled[1].y = st.points[1].y
                  /\ 10 * st.resampled[1].p = st.points[1].p
\* C19 as amended: as stated for the builder of approveCurrentCapture; in
\* createVariantFromStrokes a single-point stroke yields exactly one resampled
\* point with s = 0, dt = the point's t (0 as captured), the coordinates
\* rounded to a tenth and the pressure rounded to a hundredth.
ThmC19 ==
  /\ Built =>
       \A k \in 1..Len(result.ret) :
         LET st == result.ret[k]
         IN  st.points # << >> =>
             /\ Len(st.resampled) >= 1
             /\ Len(st.points) < 2 =>
                  st.resampled = << [x |-> st.points[1].x, y |-> st.points[1].y,
                                     dt |-> 0, p |-> st.points[1].p, s |-> 0] >>
  /\ TsBuilt =>
       \A k \in 1..Len(result.ret) :
         LET st == result.ret[k]
         IN  st.points # << >> =>
             /\ Len(st.resampled) = Len(st.points)
             /\ Len(st.resampled) >= 1
             /\ Len(st.points) < 2 =>
                  /\ st.resampled[1].dt = st.points[1].t
                  /\ st.points[1].t = 0
                  /\ st.resampled[1].s = 0
                  /\ 10 * st.resampled[1].x - st.points[1].x \in -5..5
                  /\ 10 * st.resampled[1].y - st.points[1].y \in -5..5
                  /\ 10 * st.resampled[1].p - st.points[1].p \in -5..5
\* a capture whose stroke is a single point has been built into a variant
WitC19 ==
  /\ Built
  /\ Len(result.strokes[1]) = 1
  /\ Len(result.ret[1].points) = 1
  /\ Len(result.ret[1].resampled) = 1

\* C20 as stated: in every processed stroke s strictly increases from each
\* resampled point to the next.
CexC20 ==
  (Built \/ TsBuilt) =>
    \A k \in 1..Len(result.ret) :
      \A i \in 2..Len(result.ret[k].resampled) :
        result.ret[k].resampled[i - 1].s < result.ret[k].resampled[i].s

\* ================================================ the capture buffer
\* The capture stage of the MVP script (part_000) and the TracingCanvas of the
\* React app (part_003), one of them per behaviour.  A handler runs as a whole
\* and on the state its predecessor left: the script's awaits (database get
\* and put) complete before the next event, and React has rendered between
\* two events.
\* the clock runs from 0 to MaxNow
MaxNow == 4
\* The session is followed until MaxVariants takes are stored; no stroke is
\* begun after that.
MaxVariants == 2
\* ms between two pointer events
Ticks == {1, 2}
\* a pointer event on the canvas: clientX - rect.left (clientY - rect.top is
\* 0 throughout), e.pressure in hundredths, and whether the device reports a
\* pressure at all (otherwise e.pressure is undefined)
PointerEvents ==
  { [x |-> 0, pressure |-> 50, reported |-> TRUE],
    [x |-> 3, pressure |-> 0, reported |-> FALSE],
    [x |-> 3, pressure |-> 0, reported |-> TRUE] }
\* e.button; e.buttons
Buttons == {0, 2}
ButtonsDown == {0, 1}

\* const p = (e.pressure === undefined ? 0.5 : e.pressure)
MvpPressure(e) == IF ~e.reported THEN 50 ELSE e.pressure
\* const pressure = e.pressure || 0.5
TsPressure(e) == IF ~e.reported \/ e.pressure = 0 THEN 50 ELSE e.pressure
MvpPt(e, t) == [x |-> e.x, y |-> 0, t |-> t, p |-> MvpPressure(e)]
TsPoint(e, t) == [x |-> e.x, y |-> 0, t |-> t, p |-> TsPressure(e)]

Last(seq) == seq[Len(seq)]
\* strokes[strokes.length-1].push(pt)
PushToLast(ss, pt) == [ss EXCEPT ![Len(ss)] = Append(@, pt)]
\* An undo that empties the buffer.
DropAll(ss) == << >>
\* strokes.pop(); prev.slice(0, -1)
DropLast(ss) == SubSeq(ss, 1, Len(ss) - 1)

\* existing.draft = { strokes }; put
Draft(ss) == [saved |-> TRUE, strokes |-> ss]
autoSaveGlyphDraft(ss) == [glyphs EXCEPT ![index].draft = Draft(ss)]
RECURSIVE StoredUpTo(_)
StoredUpTo(c) ==
  IF c < 0 THEN 0 ELSE StoredUpTo(c - 1) + Len(glyphs[c].variants)
StoredCount == StoredUpTo(OrderLen - 1)

\* getGlyphBox(captureCanvas): a square box
CaptureBox == [x |-> 0, y |-> 0, w |-> 100, h |-> 100]
\* What the buffer would hold were resampleStroke given the buffer's arrays.
Unsliced(s, after) == after
\* resampleStroke(s.slice(), stepPx): the splices go to the copy
Sliced(s, after) == s
BufferAfterBuild(buf) ==
  [k \in 1..Len(buf) |->
     Sliced(buf[k], Vals(resampleStroke(Reref(buf[k]), StepPx).arg))]
\* strokes.map(s => ...) of approveCurrentCapture and showPreview
BuildNorm(buf) ==
  NormStrokes([k \in 1..Len(buf) |-> Reref(buf[k])], StepPx, CaptureBox)

\* the points of TracingCanvas in the units of the stroke processor model
\* (hundredths of a pixel, thousandths of pressure)
TsUnits(points) ==
  [k \in 1..Len(points) |->
     [x |-> 100 * points[k].x, y |-> 100 * points[k].y, t |-> points[k].t,
      p |-> 10 * points[k].p, ref |-> k]]

engineIdle == UNCHANGED <<engineVars, rawStrokes, stepPx, glyphBox>>

CaptureInit ==
  /\ nStrokes = 0
  /\ speedSel = 2
  /\ widthGain = 30
  /\ canvasSize \in CanvasSizes
  /\ rafId = 0
  /\ playing = FALSE
  /\ age = 0
  /\ pending = {}
  /\ canvas = Blank
  /\ ran = NoFrame
  /\ lastOp = "init"
  /\ cancelled = FALSE
  /\ PipeIdle
  /\ app \in {"mvp", "react"}
  /\ CaptureIdle

\* ------------------------------------------------------------ MVP script
\* A pointer-down that pushes the new stroke and records no point.
pointerDownBare ==
  /\ app = "mvp"
  /\ StoredCount < MaxVariants
  /\ \E d \in Ticks : now + d <= MaxNow /\ now' = now + d
  /\ lastTime' = now'
  /\ buffer' = Append(buffer, << >>)
  /\ capturing' = TRUE
  /\ handler' = "pointerDown"
  /\ UNCHANGED <<app, currentChar, session, screen, tasks, isDrawing,
                 currentStroke, startTime, glyphs, index, result>>
  /\ engineIdle
\* pointerDown: capturing = true; strokes.push([]); pointerMove(e)
PointerDownOf(events, ticks) ==
  /\ app = "mvp"
  /\ StoredCount < MaxVariants
  /\ \E e \in events, d \in ticks :
       /\ now + d <= MaxNow
       /\ now' = now + d
       /\ buffer' = PushToLast(Append(buffer, << >>), MvpPt(e, now + d))
  /\ lastTime' = now'
  /\ capturing' = TRUE
  /\ handler' = "pointerDown"
  /\ UNCHANGED <<app, currentChar, session, screen, tasks, isDrawing,
                 currentStroke, startTime, glyphs, index, result>>
  /\ engineIdle

\* pointerMove while capturing; with an empty buffer strokes[-1] is undefined
\* and the push throws
PointerMoveOf(events, ticks) ==
  /\ app = "mvp"
  /\ capturing
  /\ \E e \in events, d \in ticks :
       /\ now + d <= MaxNow
       /\ now' = now + d
       /\ IF buffer = << >>
            THEN buffer' = buffer /\ handler' = "TypeError"
            ELSE /\ buffer' = PushToLast(buffer, MvpPt(e, now + d))
                 /\ handler' = "pointerMove"
  /\ UNCHANGED <<app, currentChar, session, screen, lastTime, tasks,
                 capturing, isDrawing, currentStroke, startTime, glyphs,
                 index, result>>
  /\ engineIdle

pointerDown == PointerDownOf(PointerEvents, Ticks)
pointerMove == PointerMoveOf(PointerEvents, Ticks)

\* pointerUp (on window)
pointerUp ==
  /\ app = "mvp"
  /\ capturing
  /\ capturing' = FALSE
  /\ glyphs' = autoSaveGlyphDraft(buffer)
  /\ handler' = "pointerUp"
  /\ UNCHANGED <<app, currentChar, session, screen, lastTime, tasks, buffer,
                 isDrawing, currentStroke, startTime, now, index, result>>
  /\ engineIdle

\* undoBtn
undoStroke ==
  /\ app = "mvp"
  /\ IF buffer # << >>
       THEN /\ buffer' = DropLast(buffer)
            /\ glyphs' = autoSaveGlyphDraft(DropLast(buffer))
       ELSE UNCHANGED <<buffer, glyphs>>
  /\ handler' = "undoStroke"
  /\ UNCHANGED <<app, currentChar, session, screen, lastTime, tasks,
                 capturing, isDrawing, currentStroke, startTime, now, index,
                 result>>
  /\ engineIdle

\* clearBtn, redoBtn
clearStrokes ==
  /\ app = "mvp"
  /\ buffer' = << >>
  /\ glyphs' = autoSaveGlyphDraft(<< >>)
  /\ handler' = "clearStrokes"
  /\ UNCHANGED <<app, currentChar, session, screen, lastTime, tasks,
                 capturing, isDrawing, currentStroke, startTime, now, index,
                 result>>
  /\ engineIdle

\* previewBtn: the temporary variant showPreview builds; the playback it then
\* starts is the action ShowPreview of the preview engine
showPreview ==
  /\ app = "mvp"
  /\ IF buffer = << >>
       THEN /\ handler' = "alert"
            /\ UNCHANGED buffer
       ELSE LET norm == BuildNorm(buffer)
            IN  /\ \A k \in 1..Len(norm) : norm[k].exact
                /\ \A k \in 1..Len(norm) : ~norm[k].threw
                /\ buffer' = BufferAfterBuild(buffer)
                /\ handler' = "showPreview"
  /\ UNCHANGED <<app, currentChar, session, screen, lastTime, tasks,
                 capturing, isDrawing, currentStroke, startTime, now, glyphs,
                 index, result>>
  /\ engineIdle

\* An approval that goes ahead whatever the buffer holds.
NeverNothing(buf) == FALSE
\* if (!strokes.length) return;
NothingToApprove(buf) == Len(buf) = 0

\* A record that is written with the new variant alone.
OnlyVariant(variants, variant) == << variant >>
\* rec.variants.push(variant)
PushVariant(variants, variant) == Append(variants, variant)
\* An advance that runs past the last character.
AdvanceUnclamped(i) == i + 1
\* advance index: Math.min(session.index + 1, order.length-1)
AdvanceIndex(i) == Min(i + 1, OrderLen - 1)
\* nextIndex = currentIndex + 1; all characters completed: back to 0
NextIndex(i) == IF i + 1 >= OrderLen THEN 0 ELSE i + 1
\* Completed all characters
Completed(i) == i + 1 >= OrderLen

\* approveBtn, nextBtn: await approveCurrentCapture(); loadCurrentChar()
approveCurrentCapture ==
  /\ app = "mvp"
  /\ IF NothingToApprove(buffer)
       THEN /\ handler' = "approve: nothing"
            /\ UNCHANGED <<buffer, glyphs, index>>
       ELSE LET norm == BuildNorm(buffer)
            IN  /\ StoredCount < MaxVariants
                /\ \A k \in 1..Len(norm) : norm[k].exact
                /\ \A k \in 1..Len(norm) : ~norm[k].threw
                /\ glyphs' = [glyphs EXCEPT ![index] =
                                [variants |-> PushVariant(@.variants, MvpVariant(norm)),
                                 draft |-> NoDraft]]
                /\ index' = AdvanceIndex(index)
                /\ buffer' = << >>
                /\ handler' = "approve"
  /\ currentChar' = index'
  /\ UNCHANGED <<app, session, screen, lastTime, tasks, capturing, isDrawing,
                 currentStroke, startTime, now, result>>
  /\ engineIdle

\* ---------------------------------------------------------- TracingCanvas
\* handlePointerDown with e.button, and whether the modifier keys are held
handlePointerDown ==
  /\ app = "react"
  /\ screen = "tracing"
  /\ StoredCount < MaxVariants
  /\ \E e \in PointerEvents, d \in Ticks, button \in Buttons, held \in BOOLEAN :
       /\ button = 0 \/ held
       /\ now + d <= MaxNow
       /\ now' = now + d
       /\ startTime' = now + d
       /\ currentStroke' = << TsPoint(e, 0) >>
  /\ isDrawing' = TRUE
  /\ handler' = "handlePointerDown"
  /\ UNCHANGED <<app, currentChar, session, screen, lastTime, tasks, buffer,
                 capturing, glyphs, index, result>>
  /\ engineIdle

\* setStrokes((prev) => [...prev, currentStroke]); setCurrentStroke([])
Commit ==
  IF currentStroke # << >>
    THEN buffer' = Append(buffer, currentStroke) /\ currentStroke' = << >>
    ELSE UNCHANGED <<buffer, currentStroke>>

\* handlePointerMove with e.buttons, and whether the event has the modifiers
handlePointerMove ==
  /\ app = "react"
  /\ screen = "tracing"
  /\ \E e \in PointerEvents, d \in Ticks, buttons \in ButtonsDown,
        modifiersHeld \in BOOLEAN :
       /\ now + d <= MaxNow
       /\ now' = now + d
       /\ IF ~isDrawing /\ modifiersHeld
            THEN /\ StoredCount < MaxVariants
                 /\ isDrawing' = TRUE
                 /\ startTime' = now + d
                 /\ currentStroke' = << TsPoint(e, 0) >>
                 /\ handler' = "handlePointerMove: start"
                 /\ UNCHANGED buffer
          ELSE IF isDrawing /\ ~modifiersHeld /\ buttons = 0
            THEN /\ isDrawing' = FALSE
                 /\ Commit
                 /\ handler' = "handlePointerMove: stop"
                 /\ UNCHANGED startTime
          ELSE /\ isDrawing
               /\ currentStroke' = Append(currentStroke, TsPoint(e, now + d - startTime))
               /\ handler' = "handlePointerMove"
               /\ UNCHANGED <<buffer, isDrawing, startTime>>
  /\ UNCHANGED <<app, currentChar, session, screen, lastTime, tasks,
                 capturing, glyphs, index, result>>
  /\ engineIdle

\* handlePointerUp: onPointerUp and onPointerLeave
handlePointerUp ==
  /\ app = "react"
  /\ screen = "tracing"
  /\ isDrawing
  /\ isDrawing' = FALSE
  /\ Commit
  /\ handler' = "handlePointerUp"
  /\ UNCHANGED <<app, currentChar, session, screen, lastTime, tasks,
                 capturing, startTime, now, glyphs, index, result>>
  /\ engineIdle

handleUndo ==
  /\ app = "react"
  /\ screen = "tracing"
  /\ buffer' = (IF Len(buffer) > 0 THEN DropLast(buffer) ELSE buffer)
  /\ handler' = "handleUndo"
  /\ UNCHANGED <<app, currentChar, session, screen, lastTime, tasks,
                 capturing, isDrawing, currentStroke, startTime, now, glyphs,
                 index, result>>
  /\ engineIdle

\* handleAccept, then handleAcceptTrace of the app and the reset that follows
\* the change of character
handleAccept ==
  /\ app = "react"
  /\ screen = "tracing"
  /\ IF Len(buffer) > 0
       THEN /\ StoredCount < MaxVariants
            /\ glyphs' = [glyphs EXCEPT ![index].variants =
                            Append(@, createVariantFromStrokes(
                                        [k \in 1..Len(buffer) |-> TsUnits(buffer[k])]))]
            /\ index' = NextIndex(index)
            /\ screen' = (IF Completed(index) THEN "home" ELSE screen)
            /\ buffer' = << >>
            /\ currentStroke' = << >>
            /\ isDrawing' = FALSE
            /\ handler' = "handleAccept"
       ELSE /\ handler' = "handleAccept: nothing"
            /\ UNCHANGED <<buffer, currentStroke, isDrawing, glyphs, index, screen>>
  /\ currentChar' = index'
  /\ UNCHANGED <<app, session, lastTime, tasks, capturing, startTime, now,
                 result>>
  /\ engineIdle

\* ------------------------------------------------- sessions of the script
\* The session handlers wait for the database (put, getAll) before they load
\* the character: the clock has advanced when they are done.
DbRoundTrip == \E d \in Ticks : now + d <= MaxNow /\ now' = now + d

\* newBtn: a session with a new id (no glyph record has its id), index 0;
\* put("sessions", session).then(loadCurrentChar)
newSession ==
  /\ app = "mvp"
  /\ DbRoundTrip
  /\ session' = TRUE
  /\ glyphs' = NoGlyphs
  /\ index' = 0
  /\ buffer' = << >>
  /\ handler' = "newSession"
  /\ currentChar' = index'
  /\ UNCHANGED <<app, screen, lastTime, tasks, capturing, isDrawing,
                 currentStroke, startTime, result>>
  /\ engineIdle

\* resumeBtn: the session of the id kept in localStorage, as the database
\* holds it, then loadCurrentChar
resumeLast ==
  /\ app = "mvp"
  /\ session
  /\ DbRoundTrip
  /\ buffer' = << >>
  /\ handler' = "resumeLast"
  /\ currentChar' = index
  /\ UNCHANGED <<app, session, screen, lastTime, tasks, capturing, isDrawing,
                 currentStroke, startTime, glyphs, index, result>>
  /\ engineIdle

\* skipBtn: session.index = Math.min(session.index + 1, order.length-1),
\* then loadCurrentChar
skipGlyph ==
  /\ app = "mvp"
  /\ session
  /\ DbRoundTrip
  /\ index' = AdvanceIndex(index)
  /\ buffer' = << >>
  /\ handler' = "skipGlyph"
  /\ currentChar' = index'
  /\ UNCHANGED <<app, session, screen, lastTime, tasks, capturing, isDrawing,
                 currentStroke, startTime, glyphs, result>>
  /\ engineIdle

\* ------------------------------------------------------ screens of the App
\* TracingCanvas is rendered on the tracing screen only; its state does not
\* outlive it.
Unmounted ==
  /\ buffer' = << >>
  /\ currentStroke' = << >>
  /\ isDrawing' = FALSE
  /\ startTime' = 0
\* clearSession(); setSession(null)
NoSession ==
  /\ session' = FALSE
  /\ glyphs' = NoGlyphs
  /\ index' = 0

\* handleNewSession, with the answer to the confirm dialog
handleNewSession ==
  /\ app = "react"
  /\ screen = "home"
  /\ \E confirmed \in BOOLEAN :
       IF session /\ StoredCount > 0
         THEN IF confirmed
                THEN /\ NoSession
                     /\ screen' = "fontSelector"
                     /\ handler' = "handleNewSession: cleared"
                ELSE /\ handler' = "handleNewSession: kept"
                     /\ UNCHANGED <<session, glyphs, index, screen>>
         ELSE /\ confirmed
              /\ screen' = "fontSelector"
              /\ handler' = "handleNewSession"
              /\ UNCHANGED <<session, glyphs, index>>
  /\ currentChar' = index'
  /\ UNCHANGED <<app, lastTime, tasks, buffer, capturing, isDrawing,
                 currentStroke, startTime, now, result>>
  /\ engineIdle

\* handleSelectFont: createSession gives every character an empty variant
\* list and currentIndex 0
handleSelectFont ==
  /\ app = "react"
  /\ screen = "fontSelector"
  /\ session' = TRUE
  /\ glyphs' = NoGlyphs
  /\ index' = 0
  /\ screen' = "tracing"
  /\ handler' = "handleSelectFont"
  /\ currentChar' = index'
  /\ UNCHANGED <<app, lastTime, tasks, buffer, capturing, isDrawing,
                 currentStroke, startTime, now, result>>
  /\ engineIdle

handleCancelFontSelection ==
  /\ app = "react"
  /\ screen = "fontSelector"
  /\ screen' = "home"
  /\ handler' = "handleCancelFontSelection"
  /\ UNCHANGED <<app, currentChar, session, lastTime, tasks, buffer,
                 capturing, isDrawing, currentStroke, startTime, now, glyphs,
                 index, result>>
  /\ engineIdle

\* handleResumeSession: if (session) setScreen('tracing')
handleResumeSession ==
  /\ app = "react"
  /\ screen = "home"
  /\ screen' = (IF session THEN "tracing" ELSE screen)
  /\ handler' = "handleResumeSession"
  /\ UNCHANGED <<app, currentChar, session, lastTime, tasks, buffer,
                 capturing, isDrawing, currentStroke, startTime, now, glyphs,
                 index, result>>
  /\ engineIdle

\* handleExitTracing: saveSession(session); setScreen('home')
handleExitTracing ==
  /\ app = "react"
  /\ screen = "tracing"
  /\ screen' = "home"
  /\ Unmounted
  /\ handler' = "handleExitTracing"
  /\ UNCHANGED <<app, currentChar, session, lastTime, tasks, capturing, now,
                 glyphs, index, result>>
  /\ engineIdle

\* handleClearSession, confirmed
handleClearSession ==
  /\ app = "react"
  /\ screen = "home"
  /\ session
  /\ NoSession
  /\ handler' = "handleClearSession"
  /\ currentChar' = index'
  /\ UNCHANGED <<app, screen, lastTime, tasks, buffer, capturing, isDrawing,
                 currentStroke, startTime, now, result>>
  /\ engineIdle

CaptureNext ==
  \/ pointerDown
  \/ pointerMove
  \/ pointerUp
  \/ undoStroke
  \/ clearStrokes
  \/ showPreview
  \/ approveCurrentCapture
  \/ handlePointerDown
  \/ handlePointerMove
  \/ handlePointerUp
  \/ handleUndo
  \/ handleAccept
  \/ newSession
  \/ resumeLast
  \/ skipGlyph
  \/ handleNewSession
  \/ handleSelectFont
  \/ handleCancelFontSelection
  \/ handleResumeSession
  \/ handleExitTracing
  \/ handleClearSession

CaptureSpec == CaptureInit /\ [][CaptureNext]_vars

\* ------------------------------------------- the script's database steps
\* autoSaveGlyphDraft and approveCurrentCapture are async functions: each
\* get and put is a request to the database, and the function goes on when
\* the request has succeeded.  tasks holds the requests that wait, oldest
\* first, each with what its function needs to go on.  Pointer events and
\* clicks are handled between any two of these steps.
\* at most MaxPending requests wait at a time
MaxPending == 2

NoValue == [none |-> TRUE]
DbRequest(fn, op, char, val) == [fn |-> fn, op |-> op, char |-> char, val |-> val]
\* the object store of a request
StoreOf(r) == IF r.op = "putSession" THEN "sessions" ELSE "glyphs"
\* Transactions on the same store run in the order they were made when one
\* of them is readwrite; readonly transactions do not wait for each other.
Conflicts(a, b) ==
  /\ StoreOf(a) = StoreOf(b)
  /\ (a.op # "get" \/ b.op # "get")
CanComplete(k) == \A j \in 1..(k - 1) : ~Conflicts(tasks[j], tasks[k])
Without(list, k) == SubSeq(list, 1, k - 1) \o SubSeq(list, k + 1, Len(list))

\* get resolves with null for a record that was never written:
\* { sessionId, char: currentChar, variants: [] } takes its place
Absent(rec) == rec.variants = << >> /\ ~rec.draft.saved
KeyOf(r) == IF Absent(glyphs[r.char]) THEN currentChar ELSE r.char

\* The database steps are followed for pointer events of a mouse that come
\* one tick apart.
MouseEvents == { e \in PointerEvents : e.reported /\ e.x = 0 }
pointerDownMouse == PointerDownOf(MouseEvents, {1})
pointerMoveMouse == PointerMoveOf(MouseEvents, {1})

\* autoSaveGlyphDraft() up to its first await
CallAutoSave ==
  /\ Len(tasks) < MaxPending
  /\ tasks' = Append(tasks, DbRequest("autoSaveGlyphDraft", "get", currentChar,
                                      NoValue))
PendingApprovals ==
  Cardinality({ k \in 1..Len(tasks) : tasks[k].fn = "approveCurrentCapture" })

\* pointerUp (on window): capturing = false; autoSaveGlyphDraft()
pointerUpAsync ==
  /\ app = "mvp"
  /\ capturing
  /\ capturing' = FALSE
  /\ CallAutoSave
  /\ handler' = "pointerUp"
  /\ UNCHANGED <<app, currentChar, session, screen, lastTime, buffer, isDrawing,
                 currentStroke, startTime, now, glyphs, index, result>>
  /\ engineIdle

\* undoBtn
undoStrokeAsync ==
  /\ app = "mvp"
  /\ IF Len(buffer) > 0
       THEN buffer' = DropLast(buffer) /\ CallAutoSave
       ELSE UNCHANGED <<buffer, tasks>>
  /\ handler' = "undoStroke"
  /\ UNCHANGED <<app, currentChar, session, screen, lastTime, capturing,
                 isDrawing, currentStroke, startTime, now, glyphs, index, result>>
  /\ engineIdle

\* clearBtn, redoBtn
clearStrokesAsync ==
  /\ app = "mvp"
  /\ buffer' = << >>
  /\ CallAutoSave
  /\ handler' = "clearStrokes"
  /\ UNCHANGED <<app, currentChar, session, screen, lastTime, capturing,
                 isDrawing, currentStroke, startTime, now, glyphs, index, result>>
  /\ engineIdle

\* approveBtn, nextBtn: approveCurrentCapture up to its first await; with
\* nothing to approve it returns at once and loadCurrentChar follows
approveClick ==
  /\ app = "mvp"
  /\ IF NothingToApprove(buffer)
       THEN /\ handler' = "approve: nothing"
            /\ currentChar' = index
            /\ UNCHANGED <<buffer, tasks>>
       ELSE LET norm == BuildNorm(buffer)
            IN  /\ StoredCount + PendingApprovals < MaxVariants
                /\ Len(tasks) < MaxPending
                /\ \A k \in 1..Len(norm) : norm[k].exact
                /\ \A k \in 1..Len(norm) : ~norm[k].threw
                /\ tasks' = Append(tasks, DbRequest("approveCurrentCapture", "get",
                                                    currentChar, MvpVariant(norm)))
                /\ handler' = "approve: get"
                /\ UNCHANGED <<buffer, currentChar>>
  /\ UNCHANGED <<app, session, screen, lastTime, capturing, isDrawing,
                 currentStroke, startTime, now, glyphs, index, result>>
  /\ engineIdle

\* the get of autoSaveGlyphDraft has succeeded: existing.draft = { strokes };
\* put("glyphs", existing)
AutoSaveGot(r, rest) ==
  /\ tasks' = Append(rest, DbRequest(r.fn, "put", KeyOf(r),
                                     [glyphs[r.char] EXCEPT !.draft = Draft(buffer)]))
  /\ handler' = "autoSaveGlyphDraft: got"
  /\ UNCHANGED <<glyphs, index, buffer, currentChar>>
\* the get of approveCurrentCapture has succeeded: rec.variants.push(variant);
\* delete rec.draft; put("glyphs", rec)
ApproveGot(r, rest) ==
  /\ tasks' = Append(rest, DbRequest(r.fn, "put", KeyOf(r),
                                     [variants |-> PushVariant(glyphs[r.char].variants, r.val),
                                      draft |-> NoDraft]))
  /\ handler' = "approve: got"
  /\ UNCHANGED <<glyphs, index, buffer, currentChar>>
\* the put of autoSaveGlyphDraft has succeeded; updateProgress only reads
AutoSavePut(r, rest) ==
  /\ glyphs' = [glyphs EXCEPT ![r.char] = r.val]
  /\ tasks' = rest
  /\ handler' = "autoSaveGlyphDraft: put"
  /\ UNCHANGED <<index, buffer, currentChar>>
\* the put of approveCurrentCapture has succeeded: advance index;
\* put("sessions", session)
ApprovePut(r, rest) ==
  /\ glyphs' = [glyphs EXCEPT ![r.char] = r.val]
  /\ index' = AdvanceIndex(index)
  /\ tasks' = Append(rest, DbRequest(r.fn, "putSession", r.char, NoValue))
  /\ handler' = "approve: put"
  /\ UNCHANGED <<buffer, currentChar>>
\* approveCurrentCapture has returned: loadCurrentChar()
ApproveDone(r, rest) ==
  /\ tasks' = rest
  /\ currentChar' = index
  /\ buffer' = << >>
  /\ handler' = "approve"
  /\ UNCHANGED <<glyphs, index>>

\* a request succeeds and its function runs to its next await
dbComplete ==
  /\ app = "mvp"
  /\ \E k \in 1..Len(tasks) :
       LET r == tasks[k]
           rest == Without(tasks, k)
       IN  /\ CanComplete(k)
           /\ IF r.op = "get"
                THEN IF r.fn = "autoSaveGlyphDraft"
                       THEN AutoSaveGot(r, rest) ELSE ApproveGot(r, rest)
              ELSE IF r.op = "put"
                THEN IF r.fn = "autoSaveGlyphDraft"
                       THEN AutoSavePut(r, rest) ELSE ApprovePut(r, rest)
              ELSE ApproveDone(r, rest)
  /\ UNCHANGED <<app, session, screen, lastTime, capturing, isDrawing,
                 currentStroke, startTime, now, result>>
  /\ engineIdle

AsyncInit == CaptureInit /\ app = "mvp"

AsyncNext ==
  \/ pointerDownMouse
  \/ pointerMoveMouse
  \/ pointerUpAsync
  \/ undoStrokeAsync
  \/ clearStrokesAsync
  \/ approveClick
  \/ dbComplete

AsyncSpec == AsyncInit /\ [][AsyncNext]_vars

\* ====================================================== claims C21 .. C30
\* the processed strokes a builder call has returned
IsBuilt == result.fn \in {"normStrokes", "createVariantFromStrokes"}
NonDecreasingS(rs) == \A i \in 1..(Len(rs) - 1) : rs[i].s <= rs[i + 1].s

\* C21: within every processed stroke the arc length s never decreases from
\* one resampled point to the next, repeated positions included.
ThmC21 ==
  IsBuilt => \A k \in 1..Len(result.ret) : NonDecreasingS(result.ret[k].resampled)
\* a stroke with a repeated position, whose two resampled points share one s,
\* and one whose s grows
WitC21 ==
  /\ result.fn = "normStrokes"
  /\ \E k \in 1..Len(result.ret) :
       LET rs == result.ret[k].resampled
       IN  /\ \E i \in 1..(Len(rs) - 1) : rs[i].s = rs[i + 1].s /\ rs[i].s > 0
           /\ \E i \in 1..(Len(rs) - 1) : rs[i].s < rs[i + 1].s

RECURSIVE SumDt(_, _)
SumDt(rs, n) == IF n = 0 THEN 0 ELSE SumDt(rs, n - 1) + rs[n].dt
\* C22: for every raw stroke of at least two points the dt of the processed
\* stroke's resampled points add up to the last raw timestamp minus the first,
\* and no dt is negative (the raw timestamps of a stroke never decrease).
ThmC22 ==
  IsBuilt =>
    \A k \in 1..Len(result.ret) :
      LET raw == result.strokes[k]
          rs == result.ret[k].resampled
      IN  Len(raw) >= 2 =>
            /\ SumDt(rs, Len(rs)) = raw[Len(raw)].t - raw[1].t
            /\ \A i \in 1..Len(rs) : rs[i].dt >= 0
\* a built stroke that lasted some time, with interpolated points (more
\* resampled points than raw ones) and a zero dt among positive ones
WitC22 ==
  /\ result.fn = "normStrokes"
  /\ \E k \in 1..Len(result.ret) :
       LET raw == result.strokes[k]
           rs == result.ret[k].resampled
       IN  /\ Len(raw) >= 2
           /\ raw[Len(raw)].t - raw[1].t > 0
           /\ Len(rs) > Len(raw)
           /\ \E i \in 1..Len(rs) : rs[i].dt = 0

\* the time from the earliest to the latest of the points
DurationSpan(allPoints) ==
  IF Len(allPoints) > 0
    THEN LET ts == { allPoints[k].t : k \in 1..Len(allPoints) }
         IN  (CHOOSE m \in ts : \A u \in ts : u <= m)
               - (CHOOSE m \in ts : \A u \in ts : u >= m)
    ELSE 0
StoredVariants == UNION { { glyphs[c].variants[i] : i \in 1..Len(glyphs[c].variants) } : c \in DOMAIN glyphs }
RawPointsOf(v) == Flat([k \in 1..Len(v.strokes) |-> v.strokes[k].points])
\* C23 as stated: the stats of every stored variant carry durationMs, the
\* latest raw timestamp minus the earliest over all points of all strokes of
\* the capture.
CexC23 ==
  \A v \in StoredVariants :
    /\ "durationMs" \in DOMAIN v.stats
    /\ v.stats.durationMs = DurationSpan(RawPointsOf(v))

\* C24 as stated: a builder called with no stroke, or with empty strokes
\* only, fails with EmptyCaptureError and returns no variant.
CexC24 ==
  (/\ result.fn \in {"createVariantFromStrokes", "normStrokes", "TypeError"}
   /\ \A k \in 1..Len(result.strokes) : result.strokes[k] = << >>)
    => result.fn = "EmptyCaptureError"

\* the buffer holds no stroke with a point
NoPoints == \A k \in 1..Len(buffer) : buffer[k] = << >>
\* C25: an approve (Approve or Next of the script, Accept of TracingCanvas)
\* issued while the buffer holds no stroke with at least one point stores no
\* variant and leaves the current character where it is.
ThmC25 ==
  [][((approveCurrentCapture \/ handleAccept) /\ NoPoints)
       => (glyphs' = glyphs /\ index' = index)]_vars
\* an approve has just been issued on a buffer emptied again by undo or clear
\* while a stroke was being drawn
WitC25 ==
  /\ handler = "approve: nothing"
  /\ NoPoints
  /\ capturing
  /\ glyphs[index].draft.saved
  /\ StoredCount = 0

\* a step in which the end of a stroke is observed: pointer-up or pointer-leave,
\* or a pointer-move that reports no button held
StrokeEnds ==
  \/ pointerUp
  \/ handlePointerUp
  \/ handlePointerMove /\ handler' = "handlePointerMove: stop"
TimeOrdered(points) ==
  \A i \in 1..(Len(points) - 1) : points[i].t <= points[i + 1].t
\* C26 as stated: the buffer that undo, preview and approve operate on gains
\* a stroke only in the step that observes the end of that stroke, and the
\* points of every stroke are in arrival order.
CexC26 ==
  /\ [][Len(buffer') > Len(buffer) => StrokeEnds]_vars
  /\ [](\A k \in 1..Len(buffer) : TimeOrdered(buffer[k]))

\* C27: every stroke in the buffer is non-empty, and so is the stroke in
\* progress of TracingCanvas; a pointer-down that starts drawing begins
\* exactly one new stroke, of one point, and leaves the strokes of the buffer
\* as they are.
ThmC27 ==
  /\ [](/\ \A k \in 1..Len(buffer) : Len(buffer[k]) >= 1
        /\ isDrawing => Len(currentStroke) >= 1)
  /\ [][(pointerDown =>
            /\ Len(buffer') = Len(buffer) + 1
            /\ SubSeq(buffer', 1, Len(buffer)) = buffer
            /\ Len(Last(buffer')) = 1)
        /\ (handlePointerDown =>
            /\ buffer' = buffer
            /\ Len(currentStroke') = 1)]_vars
\* a second stroke has just been begun after undo took away a stroke that was
\* still being drawn and later points went to the stroke before it
WitC27 ==
  /\ handler = "pointerDown"
  /\ Len(buffer) = 2
  /\ Len(buffer[1]) = 2
  /\ Len(buffer[2]) = 1
  /\ glyphs[index].draft = Draft(<< <<buffer[1][1]>> >>)

\* C28 as stated: over the whole capture, from each point to the next and
\* from the last point of a stroke to the first point of the next stroke, the
\* raw timestamps never decrease.
CexC28 == TimeOrdered(Flat(buffer))

\* C29: undo takes the most recently added stroke off the buffer and leaves
\* the strokes before it as they are; on an empty buffer it changes nothing;
\* clear (Clear and Redo of the script) leaves the buffer empty.
ThmC29 ==
  [][/\ (undoStroke \/ handleUndo) =>
          IF buffer = << >> THEN buffer' = << >>
          ELSE /\ Len(buffer') = Len(buffer) - 1
               /\ \A k \in 1..Len(buffer') : buffer'[k] = buffer[k]
     /\ clearStrokes => buffer' = << >>]_vars
\* undo has just taken the second of two strokes off the buffer
WitC29 ==
  /\ handler \in {"undoStroke", "handleUndo"}
  /\ Len(buffer) = 1
  /\ Len(buffer[1]) = 2

\* C30: building the preview's temporary variant leaves the capture buffer
\* as it was, so that an approve after the preview builds, and stores, the
\* processed strokes it would have stored before the preview.
ThmC30 ==
  [][/\ showPreview =>
          /\ buffer' = buffer
          /\ StoredStrokes(BuildNorm(buffer')) = StoredStrokes(BuildNorm(buffer))
     /\ (approveCurrentCapture /\ buffer # << >>) =>
          Last(glyphs'[index].variants).strokes = StoredStrokes(BuildNorm(buffer))]_vars
\* a preview has just been built from a buffer with a stroke along which the
\* resampler inserts points
WitC30 ==
  /\ handler = "showPreview"
  /\ \E k \in 1..Len(buffer) :
       /\ Len(buffer[k]) = 2
       /\ Abs(buffer[k][2].x - buffer[k][1].x) = 3
       /\ Len(BuildNorm(buffer)[k].points) > 2

\* C33: in the MVP capture buffer every point recorded by a pointer-move is
\* appended to the stroke begun by the most recent pointer-down (the stroke
\* whose first point carries that pointer-down's time), also when an undo, a
\* clear or a character change came while the stroke was in progress: the
\* move never throws for want of a stroke and never extends an older stroke.
CexC33 ==
  [][pointerMove =>
       /\ handler' = "pointerMove"
       /\ buffer # << >>
       /\ Last(buffer) # << >>
       /\ Last(buffer)[1].t = lastTime
       /\ buffer' # buffer]_vars

\* the total path length of a stroke: the sum of the distances between
\* consecutive points
RECURSIVE PathLength(_, _)
PathLength(points, n) ==
  IF n < 2 THEN 0
  ELSE PathLength(points, n - 1)
         + Hypot(points[n].x - points[n - 1].x, points[n].y - points[n - 1].y)
\* the points resampleStroke spliced into its argument
Inserted(r) == Len(r.after) - Len(r.points)

\* C38: for a stroke of total path length L and a step > 0 the resampler
\* comes to an end although it splices points into the array it iterates
\* over (it inserts at most floor(L / step) points, so the loop runs at most
\* that many extra rounds), and it returns at most floor(L / step) + 2 points.
ThmC38 ==
  (result.fn = "resampleStroke" /\ result.step > 0) =>
    LET L == PathLength(result.points, Len(result.points))
    IN  /\ Inserted(result) <= L \div result.step
        /\ Len(result.ret) <= L \div result.step + 2
\* a call that spliced points into a stroke with a corner and returned
\* exactly floor(L / step) + 2 points
WitC38 ==
  /\ result.fn = "resampleStroke"
  /\ Len(result.points) = 3
  /\ result.points[2].y = 0 /\ result.points[3].y # 0
  /\ Inserted(result) >= 2
  /\ Len(result.ret) =
       PathLength(result.points, Len(result.points)) \div result.step + 2

\* what the frame at elapsed time e2 / 2 draws of the previewed variant
FrameAt(e2) ==
  Reveal(Segments(ResampledOf(result.norm)), 1, 0, e2, widthGain \div 10,
         canvasSize)
\* every segment drawn in full in d1 is drawn in full in d2, and the segment
\* drawn in part in d1 is drawn in d2 in full or with at least that fraction
NeverRetreats(d1, d2) ==
  \A k \in DOMAIN d1 :
    /\ k \in DOMAIN d2
    /\ d2[k].seg = d1[k].seg
    /\ d1[k].kind = "full" => d2[k].kind = "full"
    /\ d1[k].kind = "partial" =>
         \/ d2[k].kind = "full"
         \/ d2[k].ratio[1] * d1[k].ratio[2] >= d1[k].ratio[1] * d2[k].ratio[2]

\* C37: within one playback (recorded dt all >= 0) the reveal never
\* retreats: what a frame at elapsed time e1 draws in full, the frame at any
\* later elapsed time e2 draws in full, and the fraction of the segment drawn
\* in part at e1 is at least as large at e2.
ThmC37 ==
  result.fn = "frame" =>
    \A e1 \in FrameTimes :
      2 * e1 <= result.elapsed2 => NeverRetreats(FrameAt(2 * e1), result.drawn)
\* a frame that draws a segment in part, after an earlier frame time at which
\* a segment before it was drawn in full and this one to a smaller, positive
\* fraction
WitC37 ==
  /\ result.fn = "frame"
  /\ \E e1 \in FrameTimes :
       LET d1 == FrameAt(2 * e1)
           d2 == result.drawn
       IN  /\ 2 * e1 < result.elapsed2
           /\ Len(d1) >= 2
           /\ Len(d2) = Len(d1)
           /\ d1[Len(d1)].kind = "partial" /\ d2[Len(d2)].kind = "partial"
           /\ d1[Len(d1)].ratio[1] > 0
           /\ d2[Len(d2)].ratio[1] > d1[Len(d1)].ratio[1]
           /\ d2[Len(d2)].ratio[1] < d2[Len(d2)].ratio[2]

\* C36: whatever new-session, resume, accept and skip operations have run,
\* the index of the session is one of 0 .. N-1 for the N characters of the
\* set; accepting a trace of the last character takes the App's index back
\* to 0 and the App to the home screen, and leaves the script's index at N-1
\* (a skip at the last character leaves it there as well).
ThmC36 ==
  [][/\ index' \in 0..(OrderLen - 1)
     /\ (handleAccept /\ buffer # << >> /\ index = OrderLen - 1) =>
          (index' = 0 /\ screen' = "home")
     /\ (handleAccept /\ buffer # << >> /\ index < OrderLen - 1) =>
          (index' = index + 1 /\ screen' = "tracing")
     /\ ((approveCurrentCapture /\ buffer # << >>) \/ skipGlyph) =>
          index' = (IF index = OrderLen - 1 THEN OrderLen - 1 ELSE index + 1)]_vars
\* the App is back on the home screen at index 0 with a trace of the last
\* character just accepted
WitC36 ==
  /\ handler = "handleAccept"
  /\ screen = "home"
  /\ index = 0
  /\ Len(glyphs[OrderLen - 1].variants) = 1

\* the variants stored for character c are left as they are by the step
VariantsKept(c) == glyphs'[c].variants = glyphs[c].variants
\* the step is a capture, an undo or a redo (clear), a preview, a skip or a
\* resume
CaptureStep ==
  \/ pointerDown \/ pointerMove \/ pointerUp
  \/ undoStroke \/ clearStrokes \/ showPreview \/ skipGlyph \/ resumeLast
  \/ handlePointerDown \/ handlePointerMove \/ handlePointerUp \/ handleUndo
  \/ handleExitTracing \/ handleResumeSession
\* the step accepts a trace
AcceptStep == (approveCurrentCapture \/ handleAccept) /\ buffer # << >>

AutoSaveWrites == dbComplete /\ handler' = "autoSaveGlyphDraft: put"

\* C34: a variant that an approval has written into the record of a
\* character stays in that record: the write of a draft autosave, whenever
\* its read and its write come between the steps of an approval, leaves
\* every stored variant in place.
CexC34 ==
  [][AutoSaveWrites =>
       \A c \in DOMAIN glyphs :
         \A k \in 1..Len(glyphs[c].variants) :
           /\ k <= Len(glyphs'[c].variants)
           /\ glyphs'[c].variants[k] = glyphs[c].variants[k]]_vars

\* the stored variants, as pairs of character and position
StoredAt == { <<c, k>> \in (DOMAIN glyphs) \X (1..MaxVariants) :
                k <= Len(glyphs[c].variants) }
\* a take is known by its strokes: its points carry the times of the capture
SameTake(a, b) ==
  glyphs[a[1]].variants[a[2]].strokes = glyphs[b[1]].variants[b[2]].strokes

\* no two stored variants hold the same take
NoTakeTwice == \A a \in StoredAt, b \in StoredAt : SameTake(a, b) => a = b
\* the put of an approval takes effect in the step
ApproveWrites == dbComplete /\ handler' = "approve: put"

\* C35: each captured take is stored as exactly one variant and moves the
\* session on by exactly one character, also when a second approve or next
\* click comes while the database steps of the first are pending: the write
\* of an approval, which is followed by the advance of the index, adds one
\* variant to those stored, keeps every variant stored before and stores no
\* take a second time.
CexC35 ==
  [][ApproveWrites =>
       /\ StoredCount' = StoredCount + 1
       /\ \A c \in DOMAIN glyphs :
            \A k \in 1..Len(glyphs[c].variants) :
              /\ k <= Len(glyphs'[c].variants)
              /\ glyphs'[c].variants[k] = glyphs[c].variants[k]
       /\ NoTakeTwice']_vars

\* the fields of a variant on which an export and import are compared
SameVariant(a, b) ==
  /\ a.id = b.id
  /\ a.starred = b.starred
  /\ a.weight = b.weight
  /\ a.stats = b.stats
  /\ Len(a.strokes) = Len(b.strokes)
  /\ \A k \in 1..Len(a.strokes) :
       /\ a.strokes[k].points = b.strokes[k].points
       /\ a.strokes[k].resampled = b.strokes[k].resampled
SameVariants(vs, ws) ==
  /\ Len(vs) = Len(ws)
  /\ \A k \in 1..Len(vs) : SameVariant(vs[k], ws[k])

====
